---- MODULE Spec2Model ----
(***************************************************************************)
(* Model of the flux-core subprocess server (rexec service):               *)
(* src/unnamed/part_001 lines 1-681 (libsubprocess server.c), and of the   *)
(* alloc-check jobtap plugin: src/unnamed/part_001 lines 683-887, and of   *)
(* the job manager's urgency request: src/unnamed/part_002, and of the     *)
(* polling of the job-archive module:                                      *)
(* src/src/modules/job-archive/job-archive.c.                              *)
(*                                                                         *)
(* The server is single threaded: every message handler and every          *)
(* subprocess callback runs to completion on one reactor, so each handler  *)
(* is one atomic action.  A handler is written as an operator from a       *)
(* server-state record S to the record after the handler; nested calls of  *)
(* the C code (proc_delete, proc_internal_fatal, server_kill, ...) are     *)
(* nested operator applications.                                           *)
(***************************************************************************)
EXTENDS Integers, Sequences, FiniteSets

\* ------------------------------------------------------------------ bounds
\* Number of subprocess objects (= pids) a run may create.
MaxProcs == 2
\* Number of callbacks of one subprocess whose frames are recorded in order.
MaxTrace == 5
\* Number of jobs the job manager presents to the alloc-check plugin.
MaxJobs == 3

MaxListed == 3

Procs == 1..MaxProcs
\* Identities of requesters (first route of the request message).
Requesters == {"U1", "U2"}
\* Signal arguments of kill and shutdown.
Signals == {"SIGTERM", "SIGKILL"}

VARIABLES
    subprocesses,   \* s->subprocesses : the registry, a zlistx in insertion order
    shutdown,       \* s->shutdown     : "NULL" or "future"
    fulfilled,      \* number of flux_future_fulfill calls on s->shutdown
    auth_cb,        \* s->auth_cb      : "NULL" or "set"
    destroyed,      \* TRUE once subprocess_server_destroy has run
    proc,           \* the flux_subprocess_t objects, by pid
    hist,           \* history of each process: saved by proc_save, zlistx_delete calls,
                    \* terminal frames sent to its requester, callbacks in order
    last            \* observable effects of the handler that ran last

\* The alloc-check plugin and the jobs of the job manager it is loaded in.
VARIABLES
    allocated,      \* resdb->allocated : the resources the plugin counts as allocated
    job_aux,        \* the "alloc-check::R" aux item of each job
    subscribed,     \* the jobs whose job.event.* callbacks the plugin receives
    granted,        \* each job's place in its life and the R of its alloc event
    jobtap_last     \* observable effects of the jobtap callback that ran last

alloc_vars == <<allocated, job_aux, subscribed, granted, jobtap_last>>

\* The job manager, as the urgency request sees it.
VARIABLES
    active_jobs,    \* ctx->active_jobs : the active jobs, by id
    urgency_last    \* observable effects of the urgency request handled last

urgency_vars == <<active_jobs, urgency_last>>

\* The job-archive module.
VARIABLES
    archive_w,          \* ctx->w : TRUE while the timer watcher is started
    kvs_lookup_count,   \* ctx->kvs_lookup_count
    archive_since,      \* ctx->since
    archive_list,       \* TRUE while the job-list RPC of the cycle is awaited
    archive_lookups,    \* the job-info.lookup RPCs awaited: t_inactive of each job
    archive_rearms,     \* the times the timer was started since its last expiry
    archive_last        \* observable effects of the callback that ran last

archive_vars ==
    <<archive_w, kvs_lookup_count, archive_since, archive_list, archive_lookups,
      archive_rearms, archive_last>>

vars == <<subprocesses, shutdown, fulfilled, auth_cb, destroyed, proc, hist, last,
          alloc_vars, urgency_vars, archive_vars>>

Jobs == 1..MaxJobs
\* The resources of the instance (cores of its ranks).
Resources == {"rank0/core0", "rank0/core1"}

\* The aux item of a job: has is FALSE when the job has none.
NoAux == [has |-> FALSE, rl |-> {}]

NoCallback == [topic |-> "", id |-> 0, ret |-> "", raised |-> <<>>, log |-> 0]

\* The ids of the jobs of the job manager.
JobIds == {1, 2}

\* The users that submit jobs and send requests.
Users == {"alice", "bob"}

\* A job that is not in ctx->active_jobs.
NoJob ==
    [active |-> FALSE, userid |-> "", urgency |-> 0, priority |-> <<0, 0>>,
     has_resources |-> FALSE, alloc_queued |-> FALSE, alloc_pending |-> FALSE]

NoRequest ==
    [cred |-> [userid |-> "", rolemask |-> ""], id |-> 0, urgency |-> 0, fault |-> "",
     resp |-> <<>>, events |-> <<>>, sched |-> <<>>, log |-> 0]

\* The job manager before any job is submitted.
job_manager_create ==
    /\ active_jobs = [id \in JobIds |-> NoJob]
    /\ urgency_last = NoRequest

\* mod_main of job-archive with a dbpath: the timer is created and started.
job_archive_start ==
    /\ archive_w = TRUE
    /\ kvs_lookup_count = 0
    /\ archive_since = 0
    /\ archive_list = FALSE
    /\ archive_lookups = <<>>
    /\ archive_rearms = 1
    /\ archive_last = [op |-> "mod_main", started |-> 1, stored |-> 0, log |-> 0]

\* flux_plugin_init: resdb_create gives an empty resource set.
resdb_create ==
    /\ allocated = {}
    /\ job_aux = [j \in Jobs |-> NoAux]
    /\ subscribed = {}
    /\ granted = [j \in Jobs |-> [phase |-> "none", R |-> {}]]
    /\ jobtap_last = NoCallback

\* ------------------------------------------------------------------ data
\* The kinds of output stream of a subprocess: stdout, stderr, and the
\* output side of a channel.
OutputKinds == {"stdout", "stderr", "channel"}

\* The commands of exec requests: their argument vectors.
Commands == {<<"true">>, <<"sleep", "10">>}

\* The body of an exec request that asks for every output kind.
PlainExec == [cmd |-> <<"sleep", "10">>, on |-> OutputKinds]

\* on: the output kinds the retained exec request asked for; ops: the
\* output kinds an output callback is registered for; cmd: the command.
NoProc == [obj |-> "none", state |-> "INIT", failed_errno |-> "0",
           sender |-> "", reported |-> "INIT", notify |-> FALSE, on |-> {}, ops |-> {},
           cmd |-> <<>>]

FreedProc == [NoProc EXCEPT !.obj = "freed"]

Remove(list, p) == SelectSeq(list, LAMBDA x : x # p)

Members(list) == {list[i] : i \in 1..Len(list)}

Min(a, b) == IF a < b THEN a ELSE b

\* The request message a response is addressed to.
Req(topic, sender, pid) == [topic |-> topic, sender |-> sender, pid |-> pid]

\* Mutant: the frames of every subprocess go to the exec request of the
\* first requester.
msgkey_of_first(S, p) == Req("rexec.exec", "U1", p)

\* The rexec.exec request kept under msgkey in subprocess p.
msgkey(S, p) == Req("rexec.exec", S.proc[p].sender, p)

\* One response message.
Response(to, type, errno, msg, pid, state, eof, procs) ==
    [to |-> to, type |-> type, errno |-> errno, msg |-> msg, pid |-> pid,
     state |-> state, eof |-> eof, procs |-> procs]

\* The server state a handler starts from: the variables, plus the effects
\* the handler accumulates (responses, signals, log entries, stream
\* operations), errno, the handler's return value and the branch it took.
Cur ==
    [subprocesses |-> subprocesses, shutdown |-> shutdown, fulfilled |-> fulfilled,
     proc |-> proc, hist |-> hist,
     errno |-> "0", resp |-> <<>>, sig |-> <<>>, log |-> 0, io |-> <<>>,
     ret |-> "", step |-> ""]

\* ------------------------------------------------ collaborators' effects
flux_respond_error(S, to, errno, msg) ==
    [S EXCEPT !.resp = Append(@, Response(to, "error", errno, msg, 0, "", FALSE, <<>>))]

flux_respond_state(S, to, pid, state) ==
    [S EXCEPT !.resp = Append(@, Response(to, "state", "0", "", pid, state, FALSE, <<>>))]

flux_log_error(S) == [S EXCEPT !.log = @ + 1]

\* A signal sent to a process (group); ok is the result of the call.
SendSignal(S, via, pid, signum, ok) ==
    [S EXCEPT !.sig = Append(@, [via |-> via, pid |-> pid, signum |-> signum, ok |-> ok])]

\* Dropping the last reference frees the subprocess object: its watchers are
\* destroyed and no callback is delivered for it afterwards.  The server
\* holds the only reference (the one flux_exec returned).
flux_subprocess_unref(S, p) == [S EXCEPT !.proc[p] = FreedProc]

\* Starts the watchers that deliver p->state to on_state_change.
state_change_start(S, p) == [S EXCEPT !.proc[p].notify = TRUE]

flux_future_fulfill(S) == [S EXCEPT !.fulfilled = Min(@ + 1, 3)]

\* ------------------------------------------------------------ registry
\* Mutant: the destructor does not drop the list's reference.
proc_destructor_keeps_ref(S, p) == S

proc_destructor(S, p) == flux_subprocess_unref(S, p)

\* zlistx_delete: detach the item at the handle and run the destructor.
zlistx_delete(S, p) ==
    proc_destructor([S EXCEPT !.subprocesses = Remove(@, p),
                              !.hist[p].removals = Min(@ + 1, 2)], p)

\* Mutant: the handle is fulfilled on every removal during a shutdown.
proc_delete_no_size_check(S, p) ==
    LET T == zlistx_delete(S, p)
    IN  IF T.shutdown # "NULL" THEN flux_future_fulfill(T) ELSE T

\* Mutant: the record is detached from the list without its destructor.
proc_delete_detaches(S, p) ==
    LET T == [S EXCEPT !.subprocesses = Remove(@, p), !.hist[p].removals = Min(@ + 1, 2)]
    IN  IF Len(T.subprocesses) = 0 /\ T.shutdown # "NULL"
        THEN flux_future_fulfill(T)
        ELSE T

proc_delete(S, p) ==
    LET T == zlistx_delete(S, p)
    IN  IF Len(T.subprocesses) = 0 /\ T.shutdown # "NULL"
        THEN flux_future_fulfill(T)
        ELSE T

\* Mutant: the lookup also finds the pids of records removed earlier.
proc_find_bypid_stale(S, pid) == IF S.hist[pid].saved THEN pid ELSE 0

proc_find_bypid(S, pid) ==
    IF \E i \in 1..Len(S.subprocesses) : S.subprocesses[i] = pid THEN pid ELSE 0

\* ----------------------------------------------------- process callbacks
\* Mutant: the end-of-data frame is sent whatever the state.
proc_completion_cb_always_eod(S, p) ==
    proc_delete(flux_respond_error(S, msgkey(S, p), "ENODATA", ""), p)

proc_completion_cb(S, p) ==
    LET T == IF S.proc[p].state # "FAILED"
             THEN flux_respond_error(S, msgkey(S, p), "ENODATA", "")
             ELSE S
    IN  proc_delete(T, p)

\* Mutant: a subprocess that is already Failed is marked and killed again.
proc_internal_fatal_unguarded(S, p, kres) ==
    LET T == state_change_start(
                 [S EXCEPT !.proc[p].state = "FAILED",
                           !.proc[p].failed_errno = S.errno], p)
        U == SendSignal(T, "killpg", p, "SIGKILL", kres = "ok")
    IN  IF kres \notin {"ok", "ESRCH"} THEN flux_log_error(U) ELSE U

\* Mutant: the process group of a subprocess that is already Failed is
\* killed again.
proc_internal_fatal_rekills(S, p, kres) ==
    IF S.proc[p].state = "FAILED" THEN SendSignal(S, "killpg", p, "SIGKILL", kres = "ok")
    ELSE LET T == state_change_start(
                      [S EXCEPT !.proc[p].state = "FAILED",
                                !.proc[p].failed_errno = S.errno], p)
             U == SendSignal(T, "killpg", p, "SIGKILL", kres = "ok")
         IN  IF kres \notin {"ok", "ESRCH"} THEN flux_log_error(U) ELSE U

\* kres: the result of killpg: "ok", "ESRCH" or another errno.
proc_internal_fatal(S, p, kres) ==
    IF S.proc[p].state = "FAILED" THEN S
    ELSE LET T == state_change_start(
                      [S EXCEPT !.proc[p].state = "FAILED",
                                !.proc[p].failed_errno = S.errno], p)
             U == SendSignal(T, "killpg", p, "SIGKILL", kres = "ok")
         IN  IF kres \notin {"ok", "ESRCH"} THEN flux_log_error(U) ELSE U

\* Mutant: the Exited state change also sends the end-of-data frame.
proc_state_change_cb_eod_on_exit(S, p, state, kres) ==
    CASE state = "RUNNING" -> flux_respond_state(S, msgkey(S, p), p, "RUNNING")
      [] state = "EXITED"  ->
            flux_respond_error(flux_respond_state(S, msgkey(S, p), 0, "EXITED"),
                               msgkey(S, p), "ENODATA", "")
      [] state = "FAILED"  ->
            proc_delete(flux_respond_error(S, msgkey(S, p), S.proc[p].failed_errno, ""), p)
      [] OTHER ->
            proc_internal_fatal(flux_log_error([S EXCEPT !.errno = "EPROTO"]), p, kres)

\* Mutant: the Failed state change reports the failure and leaves the
\* record in the registry.
proc_state_change_cb_failed_keeps_record(S, p, state, kres) ==
    CASE state = "RUNNING" -> flux_respond_state(S, msgkey(S, p), p, "RUNNING")
      [] state = "EXITED"  -> flux_respond_state(S, msgkey(S, p), 0, "EXITED")
      [] state = "FAILED"  ->
            flux_respond_error(S, msgkey(S, p), S.proc[p].failed_errno, "")
      [] OTHER ->
            proc_internal_fatal(flux_log_error([S EXCEPT !.errno = "EPROTO"]), p, kres)

\* Mutant: the Failed transition takes the record off the list without the
\* shutdown check of proc_delete.
proc_state_change_cb_no_shutdown_check(S, p, state, kres) ==
    CASE state = "RUNNING" -> flux_respond_state(S, msgkey(S, p), p, "RUNNING")
      [] state = "EXITED"  -> flux_respond_state(S, msgkey(S, p), 0, "EXITED")
      [] state = "FAILED"  ->
            zlistx_delete(flux_respond_error(S, msgkey(S, p), S.proc[p].failed_errno, ""), p)
      [] OTHER ->
            proc_internal_fatal(flux_log_error([S EXCEPT !.errno = "EPROTO"]), p, kres)

\* Mutant: the Exited state change removes the record.
proc_state_change_cb_exited_removes(S, p, state, kres) ==
    CASE state = "RUNNING" -> flux_respond_state(S, msgkey(S, p), p, "RUNNING")
      [] state = "EXITED"  -> proc_delete(flux_respond_state(S, msgkey(S, p), 0, "EXITED"), p)
      [] state = "FAILED"  ->
            proc_delete(flux_respond_error(S, msgkey(S, p), S.proc[p].failed_errno, ""), p)
      [] OTHER ->
            proc_internal_fatal(flux_log_error([S EXCEPT !.errno = "EPROTO"]), p, kres)

proc_state_change_cb(S, p, state, kres) ==
    CASE state = "RUNNING" -> flux_respond_state(S, msgkey(S, p), p, "RUNNING")
      [] state = "EXITED"  -> flux_respond_state(S, msgkey(S, p), 0, "EXITED")
      [] state = "FAILED"  ->
            proc_delete(flux_respond_error(S, msgkey(S, p), S.proc[p].failed_errno, ""), p)
      [] OTHER ->
            proc_internal_fatal(flux_log_error([S EXCEPT !.errno = "EPROTO"]), p, kres)

\* ------------------------------------------------------------- signals
\* Mutant: a subprocess that cannot be signalled is taken off the list.
server_kill_drops_unreachable(S, p, signum, fails) ==
    LET T == SendSignal(S, "kill", p, signum, p \notin fails)
    IN  IF p \in fails
        THEN flux_log_error([T EXCEPT !.subprocesses = Remove(@, p), !.proc[p] = FreedProc])
        ELSE T

\* fails: the subprocesses for which flux_subprocess_kill fails.
server_kill(S, p, signum, fails) ==
    LET T == SendSignal(S, "kill", p, signum, p \notin fails)
    IN  IF p \in fails THEN flux_log_error(T) ELSE T

RECURSIVE killall_from(_, _, _, _)
killall_from(S, i, signum, fails) ==
    IF i > Len(S.subprocesses) THEN S
    ELSE killall_from(server_kill(S, S.subprocesses[i], signum, fails), i + 1, signum, fails)

\* Mutant: the loop ends at the first subprocess that cannot be signalled.
RECURSIVE killall_until_failure(_, _, _, _)
killall_until_failure(S, i, signum, fails) ==
    IF i > Len(S.subprocesses) THEN S
    ELSE IF S.subprocesses[i] \in fails
    THEN server_kill(S, S.subprocesses[i], signum, fails)
    ELSE killall_until_failure(server_kill(S, S.subprocesses[i], signum, fails),
                               i + 1, signum, fails)

server_killall_stops_on_failure(S, signum, fails) == killall_until_failure(S, 1, signum, fails)

server_killall(S, signum, fails) == killall_from(S, 1, signum, fails)

\* ------------------------------------------------------------ shutdown
\* Mutant: no check for a shutdown that is already outstanding.
subprocess_server_shutdown_reentered(S, signum, nomem, fails) ==
    IF nomem THEN [S EXCEPT !.errno = "ENOMEM", !.ret = "NULL", !.step = "ENOMEM"]
    ELSE LET T == [S EXCEPT !.shutdown = "future", !.ret = "future", !.step = "ok"]
         IN  IF Len(T.subprocesses) = 0
             THEN flux_future_fulfill(T)
             ELSE server_killall(T, signum, fails)

\* Mutant: the handle is fulfilled in the call whatever the list holds.
subprocess_server_shutdown_fulfills_early(S, signum, nomem, fails) ==
    IF S.shutdown # "NULL" THEN [S EXCEPT !.errno = "EINVAL", !.ret = "NULL", !.step = "EINVAL"]
    ELSE IF nomem THEN [S EXCEPT !.errno = "ENOMEM", !.ret = "NULL", !.step = "ENOMEM"]
    ELSE LET T == [S EXCEPT !.shutdown = "future", !.ret = "future", !.step = "ok"]
         IN  IF Len(T.subprocesses) = 0
             THEN flux_future_fulfill(T)
             ELSE server_killall(flux_future_fulfill(T), signum, fails)

\* Mutant: no immediate fulfillment when the list is empty.
subprocess_server_shutdown_always_pending(S, signum, nomem, fails) ==
    IF S.shutdown # "NULL" THEN [S EXCEPT !.errno = "EINVAL", !.ret = "NULL", !.step = "EINVAL"]
    ELSE IF nomem THEN [S EXCEPT !.errno = "ENOMEM", !.ret = "NULL", !.step = "ENOMEM"]
    ELSE server_killall([S EXCEPT !.shutdown = "future", !.ret = "future", !.step = "ok"],
                        signum, fails)

\* nomem: flux_future_create fails.
subprocess_server_shutdown(S, signum, nomem, fails) ==
    IF S.shutdown # "NULL" THEN [S EXCEPT !.errno = "EINVAL", !.ret = "NULL", !.step = "EINVAL"]
    ELSE IF nomem THEN [S EXCEPT !.errno = "ENOMEM", !.ret = "NULL", !.step = "ENOMEM"]
    ELSE LET T == [S EXCEPT !.shutdown = "future", !.ret = "future", !.step = "ok"]
         IN  IF Len(T.subprocesses) = 0
             THEN flux_future_fulfill(T)
             ELSE server_killall(T, signum, fails)

\* --------------------------------------------------------------- output
\* res: what the read and the send of the frame do: "data" (bytes read),
\* "eof" (zero bytes read), "read_fail", "encode_fail", "respond_fail".
flux_respond_output(S, to, pid, stream, eof) ==
    [S EXCEPT !.resp = Append(@, Response(to, "output", "0", stream, pid, "", eof, <<>>))]

proc_output(S, p, stream, eof, res) ==
    IF res = "encode_fail"
    THEN flux_log_error([S EXCEPT !.errno = "errno:ioencode", !.ret = "-1"])
    ELSE IF res = "respond_fail"
    THEN flux_log_error([S EXCEPT !.errno = "errno:flux_respond_pack", !.ret = "-1"])
    ELSE [flux_respond_output(S, msgkey(S, p), p, stream, eof) EXCEPT !.ret = "0"]

\* Mutant: the frame of an empty read is sent without the eof flag.
proc_output_cb_eof_unflagged(S, p, stream, res, kres) ==
    IF res = "read_fail"
    THEN proc_internal_fatal(
             flux_log_error([S EXCEPT !.errno = "errno:flux_subprocess_read"]), p, kres)
    ELSE LET T == proc_output(S, p, stream, FALSE, res)
         IN  IF T.ret = "-1" THEN proc_internal_fatal(T, p, kres) ELSE T

\* Mutant: the result of proc_output is not checked.
proc_output_cb_send_unchecked(S, p, stream, res, kres) ==
    IF res = "read_fail"
    THEN proc_internal_fatal(
             flux_log_error([S EXCEPT !.errno = "errno:flux_subprocess_read"]), p, kres)
    ELSE proc_output(S, p, stream, res = "eof", res)

proc_output_cb(S, p, stream, res, kres) ==
    IF res = "read_fail"
    THEN proc_internal_fatal(
             flux_log_error([S EXCEPT !.errno = "errno:flux_subprocess_read"]), p, kres)
    ELSE LET T == proc_output(S, p, stream, res = "eof", res)
         IN  IF T.ret = "-1" THEN proc_internal_fatal(T, p, kres) ELSE T

\* ----------------------------------------------------------------- auth
\* The authorization callback is supplied by the embedding program; here it
\* denies the requesters in Denied and gives AuthReason as error.text.
Denied == {"U2"}

AuthDenies(u) == u \in Denied

AuthReason(u) == "auth_cb error.text"

\* Mutant: the callback is never consulted.
auth_skipped(u) == FALSE

\* s->auth_cb && (*s->auth_cb) (msg, s->arg, &error) < 0
auth_fails(u) == auth_cb # "NULL" /\ AuthDenies(u)

\* ----------------------------------------------------------------- exec
\* Mutant: a failed aux_set leaves the subprocess on the list.
proc_save_no_detach(S, p, fault) ==
    IF fault = "add_end" THEN [S EXCEPT !.errno = "ENOMEM", !.ret = "-1"]
    ELSE LET T == [S EXCEPT !.subprocesses = Append(@, p)]
         IN  IF fault = "aux_lst"
             THEN [T EXCEPT !.errno = "errno:flux_subprocess_aux_set", !.ret = "-1"]
             ELSE [T EXCEPT !.ret = "0", !.hist[p].saved = TRUE]

\* Mutant: the new subprocess is put at the head of the list.
proc_save_add_start(S, p, fault) ==
    IF fault = "add_end" THEN [S EXCEPT !.errno = "ENOMEM", !.ret = "-1"]
    ELSE LET T == [S EXCEPT !.subprocesses = <<p>> \o @]
         IN  IF fault = "aux_lst"
             THEN [T EXCEPT !.subprocesses = Remove(@, p),
                            !.errno = "errno:flux_subprocess_aux_set", !.ret = "-1"]
             ELSE [T EXCEPT !.ret = "0", !.hist[p].saved = TRUE]

\* fault: which step of proc_save fails: "add_end", "aux_lst" or "none".
proc_save(S, p, fault) ==
    IF fault = "add_end" THEN [S EXCEPT !.errno = "ENOMEM", !.ret = "-1"]
    ELSE LET T == [S EXCEPT !.subprocesses = Append(@, p)]
         IN  IF fault = "aux_lst"
             THEN \* zlistx_detach: taken off the list, destructor not run
                  [T EXCEPT !.subprocesses = Remove(@, p),
                            !.errno = "errno:flux_subprocess_aux_set", !.ret = "-1"]
             ELSE [T EXCEPT !.ret = "0", !.hist[p].saved = TRUE]

\* flux_exec: the new subprocess object, in state RUNNING, with the
\* state-change watcher started.
flux_exec(S, p, cmd, ops) ==
    [S EXCEPT !.proc[p] = [obj |-> "live", state |-> "RUNNING", failed_errno |-> "0",
                           sender |-> "", reported |-> "INIT", notify |-> TRUE,
                           on |-> {}, ops |-> ops, cmd |-> cmd]]

\* Mutant: every output callback stays registered.
exec_ops_all(on) == OutputKinds

\* The callbacks of ops after 'if (!on_channel_out) ops.on_channel_out = NULL'
\* and the same for on_stdout and on_stderr.
exec_ops(on) == OutputKinds \ (OutputKinds \ on)

\* Mutant: execs are accepted during a shutdown.
exec_accepted_in_shutdown(S) == FALSE

\* if (s->shutdown) in server_exec_cb
exec_shutting_down(S) == S.shutdown # "NULL"

\* The error label of server_exec_cb; p is 0 when no subprocess was created.
exec_error(S, u, errmsg, step, p) ==
    LET T == flux_respond_error(S, Req("rexec.exec", u, 0), S.errno, errmsg)
        U == IF p # 0 THEN flux_subprocess_unref(T, p) ELSE T
    IN  [U EXCEPT !.step = step, !.ret = ""]

\* shape: the request as sent: "malformed", "badcmd" (cmd does not parse),
\* "emptycmd" (argc = 0) or "ok".  fault: the step after the checks that
\* fails: "env", "spawn", "aux_msg", "aux_srv", "add_end", "aux_lst", "none".
\* p: the pid flux_exec gives the new subprocess.  body: the command of
\* the request and the output kinds whose flag (on_stdout, on_stderr,
\* on_channel_out) is set in it.
server_exec_cb(S, u, shape, fault, p, body) ==
    IF shape = "malformed"
    THEN exec_error([S EXCEPT !.errno = "EPROTO"], u, "", "unpack", 0)
    ELSE IF exec_shutting_down(S)
    THEN exec_error([S EXCEPT !.errno = "ENOSYS"], u,
                    "subprocess server is shutting down", "shutdown", 0)
    ELSE IF auth_fails(u)
    THEN exec_error([S EXCEPT !.errno = "EPERM"], u, AuthReason(u), "auth", 0)
    ELSE IF shape = "badcmd"
    THEN exec_error([S EXCEPT !.errno = "errno:cmd_fromjson"], u,
                    "error parsing command string", "parse", 0)
    ELSE IF shape = "emptycmd"
    THEN exec_error([S EXCEPT !.errno = "EPROTO"], u, "command string is empty", "empty", 0)
    ELSE IF fault = "env"
    THEN exec_error([S EXCEPT !.errno = "errno:cmd_env"], u,
                    "error setting up command environment", "env", 0)
    ELSE IF fault = "spawn"
    THEN exec_error([S EXCEPT !.errno = "errno:flux_exec"], u, "exec failed", "spawn", 0)
    ELSE LET T == flux_exec(S, p, body.cmd, exec_ops(body.on))
         IN  IF fault = "aux_msg"
             THEN exec_error([T EXCEPT !.errno = "errno:flux_subprocess_aux_set"],
                             u, "", "aux_msg", p)
             ELSE LET U == [T EXCEPT !.proc[p].sender = u, !.proc[p].on = body.on]
                  IN  IF fault = "aux_srv"
                      THEN exec_error([U EXCEPT !.errno = "errno:flux_subprocess_aux_set"],
                                      u, "", "aux_srv", p)
                      ELSE LET V == proc_save(U, p, fault)
                           IN  IF V.ret = "-1"
                               THEN exec_error(V, u, "", fault, p)
                               ELSE [V EXCEPT !.step = "ok", !.ret = ""]

\* ---------------------------------------------------------------- write
\* Mutant: the length flux_subprocess_write returns is not compared with len.
write_subprocess_accepts_short(S, p, len, wres) ==
    LET T == [S EXCEPT !.io = Append(@, "write")]
    IN  IF wres = "fail"
        THEN flux_log_error([T EXCEPT !.errno = "errno:flux_subprocess_write", !.ret = "-1"])
        ELSE [T EXCEPT !.ret = "0"]

\* Mutant: a short write is reported without setting errno.
write_subprocess_no_eoverflow(S, p, len, wres) ==
    LET T == [S EXCEPT !.io = Append(@, "write")]
    IN  IF wres = "fail"
        THEN flux_log_error([T EXCEPT !.errno = "errno:flux_subprocess_write", !.ret = "-1"])
        ELSE IF wres = "short"
        THEN flux_log_error([T EXCEPT !.ret = "-1"])
        ELSE [T EXCEPT !.ret = "0"]

\* wres: flux_subprocess_write returns "ok" (len), "short" (fewer) or "fail".
write_subprocess(S, p, len, wres) ==
    LET T == [S EXCEPT !.io = Append(@, "write")]
    IN  IF wres = "fail"
        THEN flux_log_error([T EXCEPT !.errno = "errno:flux_subprocess_write", !.ret = "-1"])
        ELSE IF wres = "short"
        THEN flux_log_error([T EXCEPT !.errno = "EOVERFLOW", !.ret = "-1"])
        ELSE [T EXCEPT !.ret = "0"]

close_subprocess(S, p, cres) ==
    LET T == [S EXCEPT !.io = Append(@, "close")]
    IN  IF cres = "fail"
        THEN flux_log_error([T EXCEPT !.errno = "errno:flux_subprocess_close", !.ret = "-1"])
        ELSE [T EXCEPT !.ret = "0"]

\* Mutant: a write for an unknown pid is logged also when it carries eof.
server_write_cb_logs_late_eof(S, u, pid, w) ==
    IF w.shape = "malformed"
    THEN flux_log_error([S EXCEPT !.errno = "EPROTO", !.step = "unpack"])
    ELSE IF auth_fails(u)
    THEN flux_log_error([S EXCEPT !.errno = "EPERM", !.step = "auth"])
    ELSE IF w.shape = "undecodable"
    THEN flux_log_error([S EXCEPT !.errno = "errno:iodecode", !.step = "iodecode"])
    ELSE IF proc_find_bypid(S, pid) = 0
    THEN flux_log_error([S EXCEPT !.errno = "ENOENT", !.step = "notfound"])
    ELSE IF S.proc[pid].state # "RUNNING"
    THEN [S EXCEPT !.step = "notrunning"]
    ELSE LET T == IF w.len > 0 THEN write_subprocess(S, pid, w.len, w.wres)
                               ELSE [S EXCEPT !.ret = "0"]
         IN  IF T.ret = "-1"
             THEN [proc_internal_fatal(T, pid, w.kres) EXCEPT !.step = "write_error"]
             ELSE LET U == IF w.eof THEN close_subprocess(T, pid, w.cres) ELSE T
                  IN  IF U.ret = "-1"
                      THEN [proc_internal_fatal(U, pid, w.kres) EXCEPT !.step = "close_error"]
                      ELSE [U EXCEPT !.step = "ok"]

\* Mutant: on eof the stream is closed also after a write that failed.
server_write_cb_closes_anyway(S, u, pid, w) ==
    IF w.shape = "malformed"
    THEN flux_log_error([S EXCEPT !.errno = "EPROTO", !.step = "unpack"])
    ELSE IF auth_fails(u)
    THEN flux_log_error([S EXCEPT !.errno = "EPERM", !.step = "auth"])
    ELSE IF w.shape = "undecodable"
    THEN flux_log_error([S EXCEPT !.errno = "errno:iodecode", !.step = "iodecode"])
    ELSE IF proc_find_bypid(S, pid) = 0
    THEN LET T == [S EXCEPT !.errno = "ENOENT", !.step = "notfound"]
         IN  IF ~w.eof THEN flux_log_error(T) ELSE T
    ELSE IF S.proc[pid].state # "RUNNING"
    THEN [S EXCEPT !.step = "notrunning"]
    ELSE LET T == IF w.len > 0 THEN write_subprocess(S, pid, w.len, w.wres)
                               ELSE [S EXCEPT !.ret = "0"]
             U == IF w.eof THEN close_subprocess(T, pid, w.cres) ELSE T
         IN  IF T.ret = "-1"
             THEN [proc_internal_fatal([U EXCEPT !.errno = T.errno], pid, w.kres)
                      EXCEPT !.step = "write_error"]
             ELSE IF U.ret = "-1"
             THEN [proc_internal_fatal(U, pid, w.kres) EXCEPT !.step = "close_error"]
             ELSE [U EXCEPT !.step = "ok"]

\* Mutant: the state of the subprocess is not looked at.
server_write_cb_any_state(S, u, pid, w) ==
    IF w.shape = "malformed"
    THEN flux_log_error([S EXCEPT !.errno = "EPROTO", !.step = "unpack"])
    ELSE IF auth_fails(u)
    THEN flux_log_error([S EXCEPT !.errno = "EPERM", !.step = "auth"])
    ELSE IF w.shape = "undecodable"
    THEN flux_log_error([S EXCEPT !.errno = "errno:iodecode", !.step = "iodecode"])
    ELSE IF proc_find_bypid(S, pid) = 0
    THEN LET T == [S EXCEPT !.errno = "ENOENT", !.step = "notfound"]
         IN  IF ~w.eof THEN flux_log_error(T) ELSE T
    ELSE LET T == IF w.len > 0 THEN write_subprocess(S, pid, w.len, w.wres)
                               ELSE [S EXCEPT !.ret = "0"]
         IN  IF T.ret = "-1"
             THEN [proc_internal_fatal(T, pid, w.kres) EXCEPT !.step = "write_error"]
             ELSE LET U == IF w.eof THEN close_subprocess(T, pid, w.cres) ELSE T
                  IN  IF U.ret = "-1"
                      THEN [proc_internal_fatal(U, pid, w.kres) EXCEPT !.step = "close_error"]
                      ELSE [U EXCEPT !.step = "ok"]

\* w: the request and what the stream operations do:
\*    shape ("malformed", "undecodable", "ok"), len, eof, wres, cres, kres.
server_write_cb(S, u, pid, w) ==
    IF w.shape = "malformed"
    THEN flux_log_error([S EXCEPT !.errno = "EPROTO", !.step = "unpack"])
    ELSE IF auth_fails(u)
    THEN flux_log_error([S EXCEPT !.errno = "EPERM", !.step = "auth"])
    ELSE IF w.shape = "undecodable"
    THEN flux_log_error([S EXCEPT !.errno = "errno:iodecode", !.step = "iodecode"])
    ELSE IF proc_find_bypid(S, pid) = 0
    THEN LET T == [S EXCEPT !.errno = "ENOENT", !.step = "notfound"]
         IN  IF ~w.eof THEN flux_log_error(T) ELSE T
    ELSE IF S.proc[pid].state # "RUNNING"
    THEN [S EXCEPT !.step = "notrunning"]
    ELSE LET T == IF w.len > 0 THEN write_subprocess(S, pid, w.len, w.wres)
                               ELSE [S EXCEPT !.ret = "0"]
         IN  IF T.ret = "-1"
             THEN [proc_internal_fatal(T, pid, w.kres) EXCEPT !.step = "write_error"]
             ELSE LET U == IF w.eof THEN close_subprocess(T, pid, w.cres) ELSE T
                  IN  IF U.ret = "-1"
                      THEN [proc_internal_fatal(U, pid, w.kres) EXCEPT !.step = "close_error"]
                      ELSE [U EXCEPT !.step = "ok"]

\* ----------------------------------------------------------------- kill
\* Mutant: the result of killpg is not looked at.
server_kill_cb_best_effort(S, u, pid, signum, wellformed, kres) ==
    LET msg == Req("rexec.kill", u, 0)
    IN  IF ~wellformed
        THEN [flux_respond_error([S EXCEPT !.errno = "EPROTO"], msg, "EPROTO", "")
                 EXCEPT !.step = "unpack"]
        ELSE IF auth_fails(u)
        THEN [flux_respond_error([S EXCEPT !.errno = "EPERM"], msg, "EPERM", AuthReason(u))
                 EXCEPT !.step = "auth"]
        ELSE IF proc_find_bypid(S, pid) = 0
        THEN [flux_respond_error([S EXCEPT !.errno = "ENOENT"], msg, "ENOENT", "")
                 EXCEPT !.step = "notfound"]
        ELSE [SendSignal(S, "killpg", pid, signum, kres = "ok")
                 EXCEPT !.resp = Append(@, Response(msg, "ok", "0", "", 0, "", FALSE, <<>>)),
                        !.step = "ok"]

\* kres: the result of killpg (pid, signum).
server_kill_cb(S, u, pid, signum, wellformed, kres) ==
    LET msg == Req("rexec.kill", u, 0)
    IN  IF ~wellformed
        THEN [flux_respond_error([S EXCEPT !.errno = "EPROTO"], msg, "EPROTO", "")
                 EXCEPT !.step = "unpack"]
        ELSE IF auth_fails(u)
        THEN [flux_respond_error([S EXCEPT !.errno = "EPERM"], msg, "EPERM", AuthReason(u))
                 EXCEPT !.step = "auth"]
        ELSE IF proc_find_bypid(S, pid) = 0
        THEN [flux_respond_error([S EXCEPT !.errno = "ENOENT"], msg, "ENOENT", "")
                 EXCEPT !.step = "notfound"]
        ELSE LET T == SendSignal(S, "killpg", pid, signum, kres = "ok")
             IN  IF kres # "ok"
                 THEN [flux_respond_error([T EXCEPT !.errno = kres], msg, kres, "")
                          EXCEPT !.step = "killpg"]
                 ELSE [T EXCEPT !.resp = Append(@, Response(msg, "ok", "0", "", 0, "",
                                                            FALSE, <<>>)),
                                !.step = "ok"]

\* ----------------------------------------------------------------- list
subprocess_sender(S, p) == S.proc[p].sender

\* flux_cmd_stringify: the arguments of the command, joined by blanks.
flux_cmd_stringify(cmd) ==
    CASE cmd = <<"true">> -> "true"
      [] cmd = <<"sleep", "10">> -> "sleep 10"
      [] OTHER -> ""

\* flux_cmd_arg: argument n of the command, counted from 0.
flux_cmd_arg(cmd, n) == cmd[n + 1]

\* The {pid, cmd} object of one subprocess; the string flux_cmd_stringify
\* returns is freed unused.
process_info(S, p) == [pid |-> p, cmd |-> flux_cmd_arg(S.proc[p].cmd, 0)]

\* Mutant: running out of memory while building the list ends the handler
\* without a response.
server_list_cb_silent_nomem(S, u, nomem) ==
    LET msg == Req("rexec.list", u, 0)
    IN  IF auth_fails(u)
        THEN [flux_respond_error([S EXCEPT !.errno = "EPERM"], msg, "EPERM", AuthReason(u))
                 EXCEPT !.step = "auth"]
        ELSE IF nomem
        THEN [S EXCEPT !.errno = "ENOMEM", !.step = "nomem"]
        ELSE [S EXCEPT !.resp = Append(@, Response(msg, "list", "0", "", 0, "", FALSE,
                          [i \in 1..Len(S.subprocesses) |->
                               process_info(S, S.subprocesses[i])])),
                       !.step = "ok"]

server_list_cb(S, u, nomem) ==
    LET msg == Req("rexec.list", u, 0)
    IN  IF auth_fails(u)
        THEN [flux_respond_error([S EXCEPT !.errno = "EPERM"], msg, "EPERM", AuthReason(u))
                 EXCEPT !.step = "auth"]
        ELSE IF nomem
        THEN [flux_respond_error([S EXCEPT !.errno = "ENOMEM"], msg, "ENOMEM", "")
                 EXCEPT !.step = "nomem"]
        ELSE [S EXCEPT !.resp = Append(@, Response(msg, "list", "0", "", 0, "", FALSE,
                          [i \in 1..Len(S.subprocesses) |->
                               process_info(S, S.subprocesses[i])])),
                       !.step = "ok"]

\* ----------------------------------------------------------- disconnect
RECURSIVE disconnect_from(_, _, _, _)
disconnect_from(S, i, sender, fails) ==
    IF i > Len(S.subprocesses) THEN S
    ELSE LET p == S.subprocesses[i]
             T == IF subprocess_sender(S, p) = sender
                  THEN server_kill(S, p, "SIGKILL", fails)
                  ELSE S
         IN  disconnect_from(T, i + 1, sender, fails)

\* Mutant: the sender of the exec request is not compared.
server_disconnect_cb_kills_all(S, sender, fails) ==
    IF sender # "" THEN server_killall(S, "SIGKILL", fails) ELSE S

\* Mutant: the disconnect is put to the authorization callback.
server_disconnect_cb_authorized(S, sender, fails) ==
    IF sender = "" \/ auth_fails(sender) THEN S ELSE disconnect_from(S, 1, sender, fails)

\* sender is "" when the message has no route.
server_disconnect_cb(S, sender, fails) ==
    IF sender # "" THEN disconnect_from(S, 1, sender, fails) ELSE S

\* -------------------------------------------------------------- destroy
RECURSIVE zlistx_destroy(_)
zlistx_destroy(S) ==
    IF Len(S.subprocesses) = 0 THEN S
    ELSE LET p == Head(S.subprocesses)
         IN  zlistx_destroy(proc_destructor([S EXCEPT !.subprocesses = Tail(@)], p))

\* Mutant: the list is released before the signals are sent.
subprocess_server_destroy_releases_first(S, fails) ==
    server_killall(zlistx_destroy(S), "SIGKILL", fails)

subprocess_server_destroy(S, fails) ==
    zlistx_destroy(server_killall(S, "SIGKILL", fails))

\* ------------------------------------------- the subprocess library
\* The state the library delivers next to on_state_change: FAILED once
\* p->state is FAILED, otherwise RUNNING before EXITED.
NextState(p) ==
    IF proc[p].state = "FAILED" THEN "FAILED"
    ELSE IF proc[p].reported = "INIT" THEN "RUNNING"
    ELSE "EXITED"

\* After on_state_change returns: the state is recorded as reported, and
\* the watcher stays started while p->state differs from it.  Nothing is
\* touched when the callback released the object.
StateReported(T, p, state) ==
    IF T.proc[p].obj # "live" THEN T
    ELSE [T EXCEPT !.proc[p].reported = state,
                   !.proc[p].notify = (T.proc[p].state # state)]

\* Results of killpg.
KillResults == {"ok", "ESRCH", "EPERM"}

\* ------------------------------------------------------------ actions
\* signum also carries the state of a state change and the result of the
\* read of an output callback.
Arg(sender, pid, signum) == [sender |-> sender, pid |-> pid, signum |-> signum]

\* A write request: req is the request as sent and what the stream
\* operations do with it.
WriteArg(sender, pid, w) == [sender |-> sender, pid |-> pid, signum |-> "", req |-> w]

\* The history of a subprocess nothing has happened to.
NoHist ==
    [saved |-> FALSE, removals |-> 0, eod |-> 0, fail |-> 0, traced |-> FALSE, trace |-> <<>>]

\* The responses of resp addressed to the rexec.exec request of subprocess p.
FramesTo(resp, p) ==
    SelectSeq(resp, LAMBDA r : r.to.topic = "rexec.exec" /\ r.to.pid = p)

\* What the requester sees of one frame.
Frame(r) ==
    CASE r.type = "state"  -> <<"state", r.state, r.pid>>
      [] r.type = "output" -> <<"output", r.eof, r.pid>>
      [] OTHER             -> <<"error", r.errno, 0>>

\* The subprocess callbacks, whose frames make up the response stream.
Callbacks == {"state_change", "output", "completion"}

\* The history of p after a handler that sent resp: the end-of-data and
\* failure frames sent to the requester of p are counted, and a callback of
\* p is recorded with the frames it sent while the record of the stream of p
\* is on and has room.
Recorded(h, p, op, arg, resp) ==
    LET f == FramesTo(resp, p)
        n == Len(SelectSeq(f, LAMBDA r : r.type = "error" /\ r.errno = "ENODATA"))
        m == Len(SelectSeq(f, LAMBDA r : r.type = "error" /\ r.errno # "ENODATA"))
        t == IF h.traced /\ op \in Callbacks /\ arg.pid = p /\ Len(h.trace) < MaxTrace
             THEN Append(h.trace, [event |-> <<op, arg.signum>>,
                                   frames |-> [i \in 1..Len(f) |-> Frame(f[i])]])
             ELSE h.trace
    IN  [h EXCEPT !.eod = Min(@ + n, 2), !.fail = Min(@ + m, 2), !.trace = t]

NoEffects ==
    [op |-> "create", arg |-> Arg("", 0, ""), step |-> "", ret |-> "", errno |-> "0",
     resp |-> <<>>, sig |-> <<>>, log |-> 0, io |-> <<>>]

\* Install the handler's result T as the next state.
Commit(T, op, arg) ==
    /\ subprocesses' = T.subprocesses
    /\ shutdown' = T.shutdown
    /\ fulfilled' = T.fulfilled
    /\ proc' = T.proc
    /\ hist' = [p \in Procs |-> Recorded(T.hist[p], p, op, arg, T.resp)]
    /\ last' = [op |-> op, arg |-> arg, step |-> T.step, ret |-> T.ret, errno |-> T.errno,
                resp |-> T.resp, sig |-> T.sig, log |-> T.log, io |-> T.io]
    /\ UNCHANGED <<alloc_vars, urgency_vars, archive_vars>>

Live(p) == proc[p].obj = "live"

\* The pid of the next subprocess flux_exec creates; 0 when the model's
\* supply of subprocess objects is used up.
NextPid ==
    IF \E p \in Procs : proc[p].obj = "none"
    THEN CHOOSE p \in Procs : proc[p].obj = "none" /\ \A q \in Procs : q < p => proc[q].obj # "none"
    ELSE 0

ReachesSpawn(u, shape, fault) ==
    /\ shape = "ok"
    /\ ~exec_shutting_down(Cur)
    /\ ~auth_fails(u)
    /\ fault \notin {"env", "spawn"}

ExecShapes == {"malformed", "badcmd", "emptycmd", "ok"}

ExecFaults == {"none", "env", "spawn", "aux_msg", "aux_srv", "add_end", "aux_lst"}

WriteInputs ==
    {w \in [shape : {"malformed", "undecodable", "ok"}, len : {0, 1}, eof : BOOLEAN,
            wres : {"ok", "short", "fail"}, cres : {"ok", "fail"}, kres : KillResults] :
        /\ w.shape # "ok" => w.len = 0 /\ ~w.eof
        /\ w.len = 0 => w.wres = "ok"
        /\ (~w.eof \/ w.wres # "ok") => w.cres = "ok"
        /\ (w.wres = "ok" /\ w.cres = "ok") => w.kres = "ok"}

OutputResults == {"data", "eof", "read_fail", "encode_fail", "respond_fail"}

Streams == {"stdout", "stderr"}

Init ==
    /\ subprocesses = <<>>
    /\ shutdown = "NULL"
    /\ fulfilled = 0
    /\ auth_cb = "NULL"
    /\ destroyed = FALSE
    /\ proc = [p \in Procs |-> NoProc]
    /\ hist = [p \in Procs |-> NoHist]
    /\ last = NoEffects
    /\ resdb_create
    /\ job_manager_create
    /\ job_archive_start

\* subprocess_server_set_auth_cb
SetAuthCb ==
    /\ ~destroyed
    /\ auth_cb = "NULL"
    /\ auth_cb' = "set"
    /\ last' = [NoEffects EXCEPT !.op = "set_auth_cb"]
    /\ UNCHANGED <<subprocesses, shutdown, fulfilled, destroyed, proc, hist,
                   alloc_vars, urgency_vars, archive_vars>>

\* rexec.exec requests from the requesters in U, of the given shapes, with
\* the given faults.
ExecReq(U, shapes, faults, bodies) ==
    /\ ~destroyed
    /\ \E u \in U, shape \in shapes, fault \in faults, body \in bodies :
          /\ shape # "ok" => fault = "none"
          /\ ReachesSpawn(u, shape, fault) => NextPid # 0
          /\ Commit(server_exec_cb(Cur, u, shape, fault, NextPid, body), "exec",
                    Arg(u, 0, ""))
    /\ UNCHANGED <<auth_cb, destroyed>>

\* rexec.exec requests of one command that ask for every output kind
Exec(U, shapes, faults) == ExecReq(U, shapes, faults, {PlainExec})

\* rexec.write requests
Write(U, W) ==
    /\ ~destroyed
    /\ \E u \in U, pid \in Procs, w \in W :
          Commit(server_write_cb(Cur, u, pid, w), "write", WriteArg(u, pid, w))
    /\ UNCHANGED <<auth_cb, destroyed>>

\* rexec.kill requests
Kill(U, signums, kresults) ==
    /\ ~destroyed
    /\ \E u \in U, pid \in Procs, signum \in signums,
          wellformed \in BOOLEAN, kres \in kresults :
          /\ ~wellformed => kres = "ok"
          /\ Commit(server_kill_cb(Cur, u, pid, signum, wellformed, kres),
                    "kill", Arg(u, pid, signum))
    /\ UNCHANGED <<auth_cb, destroyed>>

\* rexec.list requests
List(U) ==
    /\ ~destroyed
    /\ \E u \in U, nomem \in BOOLEAN :
          Commit(server_list_cb(Cur, u, nomem), "list", Arg(u, 0, ""))
    /\ UNCHANGED <<auth_cb, destroyed>>

\* The sets of subprocesses that may turn out impossible to signal: any of
\* those in the registry, or none when signalling cannot fail.
FailSets(mayfail) == IF mayfail THEN SUBSET Members(subprocesses) ELSE {{}}

\* rexec.disconnect notifications
Disconnect(U, mayfail) ==
    /\ ~destroyed
    /\ \E u \in U, fails \in FailSets(mayfail) :
          Commit(server_disconnect_cb(Cur, u, fails), "disconnect", Arg(u, 0, ""))
    /\ UNCHANGED <<auth_cb, destroyed>>

\* subprocess_server_shutdown calls
Shutdown(signums, nomems, mayfail) ==
    /\ ~destroyed
    /\ \E signum \in signums, nomem \in nomems, fails \in FailSets(mayfail) :
          Commit(subprocess_server_shutdown(Cur, signum, nomem, fails),
                 "shutdown", Arg("", 0, signum))
    /\ UNCHANGED <<auth_cb, destroyed>>

Destroy ==
    /\ ~destroyed
    /\ \E fails \in SUBSET Members(subprocesses) :
          Commit(subprocess_server_destroy(Cur, fails), "destroy", Arg("", 0, ""))
    /\ destroyed' = TRUE
    /\ UNCHANGED auth_cb

\* The child of p exits (or is killed): the library sets p->state to EXITED
\* unless the server has already marked the subprocess FAILED.
ChildExit ==
    /\ ~destroyed
    /\ \E p \in Procs :
          /\ Live(p)
          /\ proc[p].state = "RUNNING"
          /\ Commit(state_change_start([Cur EXCEPT !.proc[p].state = "EXITED"], p),
                    "child_exit", Arg("", p, ""))
    /\ UNCHANGED <<auth_cb, destroyed>>

\* on_state_change
StateChange ==
    /\ ~destroyed
    /\ \E p \in Procs :
          /\ Live(p)
          /\ proc[p].notify
          /\ NextState(p) # proc[p].reported
          /\ Commit(StateReported(proc_state_change_cb(Cur, p, NextState(p), "ok"),
                                  p, NextState(p)),
                    "state_change", Arg("", p, NextState(p)))
    /\ UNCHANGED <<auth_cb, destroyed>>

\* on_completion: the process is reaped and its EXITED state was reported.
\* A state change that is due is delivered first: the Failed transition
\* removes the record at once and no completion is awaited for it.
Completion ==
    /\ ~destroyed
    /\ \E p \in Procs :
          /\ Live(p)
          /\ proc[p].reported = "EXITED"
          /\ proc[p].state = "EXITED"
          /\ Commit(proc_completion_cb(Cur, p), "completion", Arg("", p, ""))
    /\ UNCHANGED <<auth_cb, destroyed>>

\* on_completion for a subprocess the server has marked Failed, delivered
\* once the killed process is reaped and before the Failed state change.
CompletionFailed ==
    /\ ~destroyed
    /\ \E p \in Procs :
          /\ Live(p)
          /\ hist[p].saved
          /\ proc[p].state = "FAILED"
          /\ Commit(proc_completion_cb(Cur, p), "completion", Arg("", p, ""))
    /\ UNCHANGED <<auth_cb, destroyed>>

\* on_stdout / on_stderr / on_channel_out
Output(streams, results, kresults) ==
    /\ ~destroyed
    /\ \E p \in Procs, stream \in streams, res \in results, kres \in kresults :
          /\ Live(p)
          /\ hist[p].saved
          /\ stream \in proc[p].ops
          /\ res \in {"data", "eof"} => kres = "ok"
          /\ Commit(proc_output_cb(Cur, p, stream, res, kres), "output", Arg(stream, p, res))
    /\ UNCHANGED <<auth_cb, destroyed>>

\* The whole server.
Next ==
    \/ SetAuthCb
    \/ ExecReq(Requesters, ExecShapes, ExecFaults, [cmd : Commands, on : SUBSET OutputKinds])
    \/ Write(Requesters, WriteInputs)
    \/ Kill(Requesters, Signals, KillResults)
    \/ List(Requesters)
    \/ Disconnect(Requesters \cup {""}, TRUE)
    \/ Shutdown(Signals, BOOLEAN, TRUE)
    \/ Destroy
    \/ ChildExit
    \/ StateChange
    \/ Completion
    \/ Output(OutputKinds, OutputResults, KillResults)

Spec == Init /\ [][Next]_vars

\* ------------------------------------------------------- lifecycle view
\* One requester's successful execs and every event and fault in the life of
\* a subprocess.
LifeWrites ==
    {w \in WriteInputs : /\ w.shape = "ok"
                         /\ w.len > 0
                         /\ w.wres # "ok" => ~w.eof
                         /\ w.kres = "ok"}

NextLife ==
    \/ Exec({"U1"}, {"ok"}, {"none"})
    \/ Write({"U1"}, LifeWrites)
    \/ ChildExit
    \/ StateChange
    \/ Completion
    \/ Output({"stdout"}, OutputResults \ {"encode_fail"}, {"ok"})

SpecLife == Init /\ [][NextLife]_vars

\* --------------------------------------------------------- drain view
\* Execs, the life of each subprocess with one kind of fatal error (a short
\* write), and shutdown.
DrainWrites ==
    {w \in WriteInputs : w.shape = "ok" /\ w.wres = "short" /\ ~w.eof /\ w.kres = "ok"}

NextDrain ==
    \/ Exec({"U1"}, {"malformed", "ok"}, {"none", "spawn"})
    \/ Write({"U1"}, DrainWrites)
    \/ ChildExit
    \/ StateChange
    \/ Completion
    \/ Shutdown(Signals, BOOLEAN, TRUE)

SpecDrain == Init /\ [][NextDrain]_vars

\* Every subprocess exits in the end, and the reactor delivers every
\* state change and completion that is due.
NextFair ==
    \/ Exec({"U1"}, {"ok"}, {"none", "spawn"})
    \/ Write({"U1"}, DrainWrites)
    \/ ChildExit
    \/ StateChange
    \/ Completion
    \/ Shutdown({"SIGTERM"}, BOOLEAN, TRUE)

FairDrain ==
    /\ Init
    /\ [][NextFair]_vars
    /\ WF_vars(ChildExit)
    /\ WF_vars(StateChange)
    /\ WF_vars(Completion)

\* ------------------------------------------------------- requests view
\* Every exec, kill and list request, with and without an authorization
\* callback and a shutdown, on subprocesses that run and exit.
NextReq ==
    \/ SetAuthCb
    \/ Exec(Requesters, ExecShapes, ExecFaults)
    \/ Kill(Requesters, {"SIGTERM"}, {"ok", "EPERM"})
    \/ List(Requesters)
    \/ Shutdown({"SIGTERM"}, {FALSE}, FALSE)
    \/ ChildExit
    \/ StateChange
    \/ Completion

SpecReq == Init /\ [][NextReq]_vars

\* ------------------------------------------------------- order view
\* The life of the subprocesses of one requester when no callback fails,
\* with the callbacks of the first subprocess and the frames each of them
\* sent recorded in order.
InitOrder ==
    /\ subprocesses = <<>>
    /\ shutdown = "NULL"
    /\ fulfilled = 0
    /\ auth_cb = "NULL"
    /\ destroyed = FALSE
    /\ proc = [p \in Procs |-> NoProc]
    /\ hist = [p \in Procs |-> IF p = 1 THEN [NoHist EXCEPT !.traced = TRUE] ELSE NoHist]
    /\ last = NoEffects
    /\ resdb_create
    /\ job_manager_create
    /\ job_archive_start

NextOrder ==
    \/ Exec({"U1"}, {"ok"}, {"none"})
    \/ ChildExit
    \/ StateChange
    \/ Completion
    \/ Output({"stdout"}, {"data", "eof"}, {"ok"})

SpecOrder == InitOrder /\ [][NextOrder]_vars

\* ------------------------------------------------------ stream view
\* Writes that succeed and disconnects, from both requesters, with and
\* without an authorization callback, on subprocesses that run and exit.
GoodWrites ==
    {w \in WriteInputs : w.shape = "ok" /\ w.wres = "ok" /\ w.cres = "ok"}

NextIO ==
    \/ SetAuthCb
    \/ Exec(Requesters, {"ok"}, {"none"})
    \/ Write(Requesters, GoodWrites)
    \/ Disconnect(Requesters \cup {""}, TRUE)
    \/ ChildExit
    \/ StateChange
    \/ Completion

SpecIO == Init /\ [][NextIO]_vars

\* ------------------------------------------------------- write view
\* Writes by one requester to the subprocesses of another, with every
\* failure of the write and of the close.
FaultyWrites == {w \in WriteInputs : w.shape = "ok" /\ w.kres = "ok" /\ (w.len = 0 => w.eof)}

NextWrite ==
    \/ Exec({"U1"}, {"ok"}, {"none"})
    \/ Write({"U2"}, FaultyWrites)
    \/ ChildExit
    \/ StateChange
    \/ Completion

SpecWrite == Init /\ [][NextWrite]_vars

\* ----------------------------------------------------- replies view
\* Every outcome of a write, kill, list and disconnect request from both
\* requesters, on the subprocesses of one of them that run, fail and exit.
ReplyWrites == {w \in WriteInputs : w.kres = "ok" /\ w.wres # "short"}

NextReplies ==
    \/ Exec({"U1"}, {"ok"}, {"none"})
    \/ Write(Requesters, ReplyWrites)
    \/ Kill(Requesters, {"SIGTERM"}, {"ok", "ESRCH"})
    \/ List(Requesters)
    \/ Disconnect(Requesters, FALSE)
    \/ ChildExit
    \/ StateChange
    \/ Completion

SpecReplies == Init /\ [][NextReplies]_vars

\* ------------------------------------------------------- reaping view
\* The life of the subprocesses of one requester, with a short write or a
\* failed read, when the completion is delivered for every process that
\* was reaped, also one marked Failed whose Failed state change is due.
NextReap ==
    \/ Exec({"U1"}, {"ok"}, {"none"})
    \/ Write({"U1"}, DrainWrites)
    \/ ChildExit
    \/ StateChange
    \/ Completion
    \/ CompletionFailed
    \/ Output({"stdout"}, {"eof", "read_fail"}, {"ok"})

SpecReap == Init /\ [][NextReap]_vars

\* ------------------------------------------------------- exited view
\* The requests of one requester on its subprocesses while they run, after
\* they exited and after they were removed, with reads that fail.
NextExited ==
    \/ Exec({"U1"}, {"ok"}, {"none"})
    \/ Kill({"U1"}, {"SIGTERM"}, {"ok"})
    \/ List({"U1"})
    \/ Disconnect({"U1"}, FALSE)
    \/ ChildExit
    \/ StateChange
    \/ Completion
    \/ Output({"stdout"}, {"eof", "read_fail"}, {"ok"})

SpecExited == Init /\ [][NextExited]_vars

\* --------------------------------------------------- late write view
\* Writes from both requesters, with and without an authorization
\* callback, to the subprocesses of one of them while they run, after they
\* exited and after a short write marked them Failed.
LateWrites ==
    {w \in WriteInputs : /\ w.shape = "ok"
                         /\ w.wres \in {"ok", "short"}
                         /\ w.cres = "ok"
                         /\ w.kres = "ok"}

NextLate ==
    \/ SetAuthCb
    \/ Exec({"U1"}, {"ok"}, {"none"})
    \/ Write(Requesters, LateWrites)
    \/ ChildExit
    \/ StateChange
    \/ Completion

SpecLate == Init /\ [][NextLate]_vars

\* ------------------------------------------------ stream order view
\* Every write request that decodes, empty or not, with and without eof,
\* with every result of the write and of the close, from the requester of
\* the execs, and the same requests from a second requester, which the
\* authorization callback denies once it is set.
StreamWrites == {w \in WriteInputs : w.shape = "ok" /\ w.kres = "ok"}

NextStream ==
    \/ SetAuthCb
    \/ Exec({"U1"}, {"ok"}, {"none"})
    \/ Write({"U1"}, StreamWrites)
    \/ Write({"U2"}, StreamWrites \cap GoodWrites)
    \/ ChildExit
    \/ StateChange
    \/ Completion

SpecStream == Init /\ [][NextStream]_vars

\* ------------------------------------------------------- output view
\* The output callbacks of both streams of the subprocesses of one
\* requester, with every result of the read and of the send of the frame,
\* while the subprocesses run and after they exited.
NextOutput ==
    \/ Exec({"U1"}, {"ok"}, {"none"})
    \/ ChildExit
    \/ StateChange
    \/ Completion
    \/ Output(Streams, OutputResults, {"ok", "ESRCH"})

SpecOutput == Init /\ [][NextOutput]_vars

\* ------------------------------------------------- alloc-check plugin
\* The plugin state a callback starts from, plus the effects the callback
\* accumulates: the exceptions it raises, its log entries, its return value.
ACur ==
    [allocated |-> allocated, aux |-> job_aux, subscribed |-> subscribed,
     raised |-> <<>>, log |-> 0, ret |-> "0"]

\* rlist_append (rl, rl2): adds the resources of rl2 to rl; fails when one
\* of them is in rl already, and may by then have added the part of them
\* that was not.
rlist_append(rl, rl2, part) ==
    IF rl \cap rl2 = {}
    THEN [ret |-> "0", rl |-> rl \cup rl2]
    ELSE [ret |-> "-1", rl |-> rl \cup (part \cap (rl2 \ rl))]

\* rlist_diff (rla, rlb): the resources of rla that are not in rlb.
rlist_diff(rla, rlb) == rla \ rlb

flux_jobtap_job_aux_set(A, id, rl) == [A EXCEPT !.aux[id] = [has |-> TRUE, rl |-> rl]]

flux_jobtap_job_aux_get(A, id) == A.aux[id]

flux_jobtap_job_subscribe(A, id) == [A EXCEPT !.subscribed = @ \cup {id}]

flux_jobtap_raise_exception(A, id, type, severity, note) ==
    [A EXCEPT !.raised = Append(@, [id |-> id, type |-> type, severity |-> severity,
                                    note |-> note])]

\* The context of an exception event.
Entries == [type : {"scheduler-restart", "cancel"}, severity : {0, 1}]

NoEntry == [type |-> "", severity |-> 0]

is_hello_failure(entry) == entry.severity = 0 /\ entry.type = "scheduler-restart"

\* fault: the call of the callback that fails: "unpack", "subscribe",
\* "noR" (no R in the arguments), "parse" (rlist_from_json), "aux_set",
\* "diff" (rlist_diff), or "none".  part: see rlist_append.
jobtap_cb(A, topic, id, entry, R, fault, part) ==
    IF fault = "unpack" THEN [A EXCEPT !.log = @ + 1, !.ret = "-1"]
    ELSE IF topic = "job.new"
    THEN IF fault = "subscribe" THEN [A EXCEPT !.log = @ + 1]
         ELSE flux_jobtap_job_subscribe(A, id)
    ELSE IF topic = "job.event.alloc"
    THEN IF fault \in {"noR", "parse", "aux_set"}
         THEN [A EXCEPT !.log = @ + 1, !.ret = "-1"]
         ELSE LET B == flux_jobtap_job_aux_set(A, id, R)
                  r == rlist_append(B.allocated, R, part)
                  C == [B EXCEPT !.allocated = r.rl]
              IN  IF r.ret = "-1"
                  THEN flux_jobtap_raise_exception(C, id, "alloc-check", 0,
                                                   "resources already allocated")
                  ELSE C
    ELSE IF topic = "job.event.free"
            \/ (topic = "job.event.exception" /\ is_hello_failure(entry))
    THEN LET rl == flux_jobtap_job_aux_get(A, id)
         IN  IF ~rl.has THEN A
             ELSE IF fault = "diff" THEN [A EXCEPT !.log = @ + 1, !.ret = "-1"]
             ELSE [A EXCEPT !.allocated = rlist_diff(@, rl.rl)]
    ELSE A

\* Install the result B of a callback, and the job's new place in its life.
JobtapCommit(B, topic, id, phase, R) ==
    /\ allocated' = B.allocated
    /\ job_aux' = B.aux
    /\ subscribed' = B.subscribed
    /\ granted' = [granted EXCEPT ![id] = [phase |-> phase, R |-> R]]
    /\ jobtap_last' = [topic |-> topic, id |-> id, ret |-> B.ret, raised |-> B.raised,
                       log |-> B.log]
    /\ UNCHANGED <<subprocesses, shutdown, fulfilled, auth_cb, destroyed, proc, hist, last,
                   urgency_vars, archive_vars>>

\* The callback for an event of job id: job.event.* callbacks are received
\* for the jobs the plugin subscribed to only.
Delivered(topic, id, entry, R, fault, part) ==
    IF topic = "job.new" \/ id \in subscribed
    THEN jobtap_cb(ACur, topic, id, entry, R, fault, part)
    ELSE ACur

\* job.new: a job is submitted.
JobNew(faults) ==
    \E id \in Jobs, fault \in faults :
        /\ granted[id].phase = "none"
        /\ fault \in {"none", "unpack", "subscribe"}
        /\ JobtapCommit(Delivered("job.new", id, NoEntry, {}, fault, {}),
                        "job.new", id, "new", {})

\* job.event.alloc: the scheduler has allocated the resources R to a job.
JobAlloc(faults) ==
    \E id \in Jobs, R \in SUBSET Resources \ {{}}, fault \in faults,
       part \in SUBSET Resources :
        /\ granted[id].phase = "new"
        /\ part \subseteq R
        /\ fault \in {"none", "unpack", "noR", "parse", "aux_set"}
        /\ (fault # "none" \/ R \cap allocated = {}) => part = {}
        /\ JobtapCommit(Delivered("job.event.alloc", id, NoEntry, R, fault, part),
                        "job.event.alloc", id, "run", R)

\* job.event.free: the job manager has returned the resources of a job to
\* the scheduler.
JobFree(faults) ==
    \E id \in Jobs, fault \in faults :
        /\ granted[id].phase = "run"
        /\ fault \in {"none", "unpack", "diff"}
        /\ JobtapCommit(Delivered("job.event.free", id, NoEntry, {}, fault, {}),
                        "job.event.free", id, "done", granted[id].R)

\* job.event.exception: an exception is raised on a job.  A fatal
\* scheduler-restart exception on a job that holds resources is the failed
\* hello handshake: the job manager marks its resources free without
\* posting a free event.
JobException(faults) ==
    \E id \in Jobs, entry \in Entries, fault \in faults :
        /\ granted[id].phase \in {"new", "run"}
        /\ fault \in {"none", "unpack", "diff"}
        /\ JobtapCommit(Delivered("job.event.exception", id, entry, {}, fault, {}),
                        "job.event.exception", id,
                        IF is_hello_failure(entry) /\ granted[id].phase = "run"
                        THEN "done" ELSE granted[id].phase,
                        granted[id].R)

\* The plugin in a job manager whose calls do not fail.
NextAlloc ==
    \/ JobNew({"none"})
    \/ JobAlloc({"none"})
    \/ JobFree({"none"})
    \/ JobException({"none"})

SpecAlloc == Init /\ [][NextAlloc]_vars

\* ------------------------------------------------ output selection view
\* Exec requests asking for any selection of output kinds, and the output
\* events of the subprocesses they create.
SomeSelections == {{}, {"stdout"}, {"stderr", "channel"}}

NextSelect ==
    \/ ExecReq({"U1"}, {"ok"}, {"none"}, [cmd : {<<"true">>}, on : SomeSelections])
    \/ ChildExit
    \/ StateChange
    \/ Completion
    \/ Output(OutputKinds, {"data", "eof"}, {"ok"})

SpecSelect == Init /\ [][NextSelect]_vars

\* ----------------------------------------------------------- owner view
\* Subprocesses of two requesters, and write, kill, list and disconnect
\* requests of both on any of them.
OwnerWrites == {w \in GoodWrites : w.len = 1 /\ ~w.eof}

NextOwner ==
    \/ Exec(Requesters, {"ok"}, {"none"})
    \/ Write(Requesters, OwnerWrites)
    \/ Kill({"U2"}, {"SIGTERM"}, {"ok"})
    \/ List({"U2"})
    \/ Disconnect(Requesters, FALSE)
    \/ ChildExit
    \/ StateChange
    \/ Completion
    \/ Output({"stdout"}, {"data", "read_fail"}, {"ok"})

SpecOwner == Init /\ [][NextOwner]_vars

\* --------------------------------------------------------- destroy view
\* The server is destroyed at any point of the life of its subprocesses,
\* with or without a shutdown under way.
NextDestroy ==
    \/ Exec({"U1"}, {"ok"}, {"none"})
    \/ Kill({"U1"}, {"SIGTERM"}, {"ok"})
    \/ List({"U1"})
    \/ Shutdown({"SIGTERM"}, {FALSE}, FALSE)
    \/ Destroy
    \/ ChildExit
    \/ StateChange
    \/ Completion

SpecDestroy == Init /\ [][NextDestroy]_vars

\* ---------------------------------------------------------- signal view
\* Kill, disconnect, list and shutdown, with signals that can fail, on
\* subprocesses that run, exit, or fail on a short write.
NextSignal ==
    \/ Exec({"U1"}, {"ok"}, {"none"})
    \/ Write({"U1"}, DrainWrites)
    \/ Kill({"U1"}, {"SIGTERM"}, {"ok", "EPERM"})
    \/ List({"U1"})
    \/ Disconnect({"U1"}, TRUE)
    \/ Shutdown({"SIGKILL"}, {FALSE}, TRUE)
    \/ ChildExit
    \/ StateChange
    \/ Completion

SpecSignal == Init /\ [][NextSignal]_vars

\* ------------------------------------------------------------ kill view
\* Kill requests of every signal and outcome, with and without an
\* authorization callback, on subprocesses that run and exit.
NextKill ==
    \/ SetAuthCb
    \/ Exec({"U1"}, {"ok"}, {"none"})
    \/ Kill(Requesters, Signals, KillResults)
    \/ ChildExit
    \/ StateChange
    \/ Completion

SpecKill == Init /\ [][NextKill]_vars

\* ------------------------------------------------------------ list view
\* List requests, with and without an authorization callback, on
\* subprocesses of one-word and two-word commands that run and exit.
NextList ==
    \/ SetAuthCb
    \/ ExecReq({"U1"}, {"ok"}, {"none"}, [cmd : Commands, on : {OutputKinds}])
    \/ List(Requesters)
    \/ ChildExit
    \/ StateChange
    \/ Completion

SpecList == Init /\ [][NextList]_vars

\* ------------------------------------------------ urgency request model
\* Urgency and priority limits of a job (job.h).
FLUX_JOB_URGENCY_MIN == 0

FLUX_JOB_URGENCY_HOLD == FLUX_JOB_URGENCY_MIN

FLUX_JOB_URGENCY_DEFAULT == 16

FLUX_JOB_URGENCY_MAX == 31

FLUX_JOB_URGENCY_EXPEDITE == FLUX_JOB_URGENCY_MAX

\* A priority is an unsigned 32-bit number, carried as its two 16-bit
\* halves, high half first.
priority_of(n) == <<n \div 65536, n % 65536>>

FLUX_JOB_PRIORITY_MIN == priority_of(0)

\* 4294967295
FLUX_JOB_PRIORITY_MAX == <<65535, 65535>>

MAXOF(a, b) == IF a > b THEN a ELSE b

\* The urgency values a request carries: both ends of the range, the values
\* around the default, and one value out of range on each side.
Urgencies ==
    {FLUX_JOB_URGENCY_MIN - 1, FLUX_JOB_URGENCY_MIN, FLUX_JOB_URGENCY_DEFAULT - 1,
     FLUX_JOB_URGENCY_DEFAULT, FLUX_JOB_URGENCY_DEFAULT + 1, FLUX_JOB_URGENCY_MAX,
     FLUX_JOB_URGENCY_MAX + 1}

\* The role mask of a request: the instance owner, a guest, or no role.
Rolemasks == {"FLUX_ROLE_OWNER", "FLUX_ROLE_USER", "FLUX_ROLE_NONE"}

Creds == [userid : Users, rolemask : Rolemasks]

\* The calls of the handler that can fail.
UrgencyFaults ==
    {"none", "unpack", "post_urgency", "post_priority", "recalc_pending", "cancel",
     "prioritize", "respond"}

\* The job manager as a handler sees it, with nothing observed yet.
UCur ==
    [jobs |-> active_jobs, resp |-> <<>>, events |-> <<>>, sched |-> <<>>, log |-> 0,
     errno |-> "", errstr |-> ""]

\* flux_msg_cred_authorize: the owner may act on any job, a guest on the
\* jobs of their own userid.
flux_msg_cred_authorize(cred, userid) ==
    IF cred.rolemask = "FLUX_ROLE_OWNER" THEN 0
    ELSE IF cred.rolemask = "FLUX_ROLE_USER" /\ cred.userid = userid THEN 0
    ELSE -1

\* event_job_post_pack: the event is posted to the job's eventlog and applied
\* to the job; an urgency event sets the job's urgency.
event_job_post_pack(J, id, name, value) ==
    LET K == [J EXCEPT !.events = Append(@, [id |-> id, name |-> name, value |-> value])]
    IN IF name = "urgency" THEN [K EXCEPT !.jobs[id].urgency = value] ELSE K

\* The error label of urgency_handle_request: one error response.
urgency_error(J, errno, errstr) ==
    [J EXCEPT !.errno = errno, !.errstr = errstr,
              !.resp = Append(@, [type |-> "error", errno |-> errno, errstr |-> errstr])]

\* The scheduler update after the priority of job id changed.
urgency_requeue(J, id, urgency, fault) ==
    IF J.jobs[id].alloc_queued
    THEN LET K == [J EXCEPT !.sched = @ \o <<"reorder", "recalc_pending">>]
         IN IF fault = "recalc_pending" THEN [K EXCEPT !.errno = "recalc_pending"] ELSE K
    ELSE IF J.jobs[id].alloc_pending
    THEN IF urgency = FLUX_JOB_URGENCY_HOLD
         THEN LET K == [J EXCEPT !.sched = Append(@, "cancel")]
              IN IF fault = "cancel" THEN [K EXCEPT !.errno = "cancel"] ELSE K
         ELSE IF fault = "prioritize"
              THEN [J EXCEPT !.log = @ + 1, !.errno = "prioritize"]
              ELSE [J EXCEPT !.sched = Append(@, "prioritize")]
    ELSE J

\* The end of urgency_handle_request: the response with the old urgency.
urgency_respond(J, orig_urgency, fault) ==
    IF J.errno # "" THEN urgency_error(J, J.errno, "")
    ELSE IF fault = "respond"
    THEN urgency_error([J EXCEPT !.log = @ + 1], "respond", "")
    ELSE [J EXCEPT !.resp = Append(@, [type |-> "old_urgency", errno |-> "",
                                       errstr |-> "", urgency |-> orig_urgency])]

\* urgency_handle_request without the guest limit.
urgency_handle_request_no_guest_limit(J, cred, id, urgency, fault) ==
    IF fault = "unpack" THEN urgency_error(J, "EPROTO", "")
    ELSE IF urgency < FLUX_JOB_URGENCY_MIN \/ urgency > FLUX_JOB_URGENCY_MAX
    THEN urgency_error(J, "EINVAL", "urgency value is out of range")
    ELSE IF ~J.jobs[id].active
    THEN urgency_error(J, "EINVAL", "unknown job")
    ELSE IF flux_msg_cred_authorize(cred, J.jobs[id].userid) < 0
    THEN urgency_error(J, "EPERM", "guests can only reprioritize their own jobs")
    ELSE IF J.jobs[id].has_resources
    THEN urgency_error(J, "EINVAL",
                       "urgency cannot be changed once resources are allocated")
    ELSE IF fault = "post_urgency" THEN urgency_error(J, "post_urgency", "")
    ELSE
        LET orig_urgency == J.jobs[id].urgency
            K == event_job_post_pack(J, id, "urgency", urgency)
        IN IF urgency = orig_urgency THEN urgency_respond(K, orig_urgency, fault)
           ELSE
               LET priority ==
                       IF urgency = FLUX_JOB_URGENCY_HOLD THEN FLUX_JOB_PRIORITY_MIN
                       ELSE IF urgency = FLUX_JOB_URGENCY_EXPEDITE
                       THEN FLUX_JOB_PRIORITY_MAX
                       ELSE priority_of(urgency)
                   L == [K EXCEPT !.jobs[id].priority = priority]
               IN IF fault = "post_priority" THEN urgency_error(L, "post_priority", "")
                  ELSE urgency_respond(
                           urgency_requeue(event_job_post_pack(L, id, "priority", priority),
                                           id, urgency, fault),
                           orig_urgency, fault)

\* urgency_handle_request: the request of cred to set the urgency of job id.
urgency_handle_request(J, cred, id, urgency, fault) ==
    IF fault = "unpack" THEN urgency_error(J, "EPROTO", "")
    ELSE IF urgency < FLUX_JOB_URGENCY_MIN \/ urgency > FLUX_JOB_URGENCY_MAX
    THEN urgency_error(J, "EINVAL", "urgency value is out of range")
    ELSE IF ~J.jobs[id].active
    THEN urgency_error(J, "EINVAL", "unknown job")
    ELSE IF flux_msg_cred_authorize(cred, J.jobs[id].userid) < 0
    THEN urgency_error(J, "EPERM", "guests can only reprioritize their own jobs")
    ELSE IF /\ cred.rolemask # "FLUX_ROLE_OWNER"
            /\ urgency > MAXOF(FLUX_JOB_URGENCY_DEFAULT, J.jobs[id].urgency)
    THEN urgency_error(J, "EPERM", "guests can only adjust urgency <= default")
    ELSE IF J.jobs[id].has_resources
    THEN urgency_error(J, "EINVAL",
                       "urgency cannot be changed once resources are allocated")
    ELSE IF fault = "post_urgency" THEN urgency_error(J, "post_urgency", "")
    ELSE
        LET orig_urgency == J.jobs[id].urgency
            K == event_job_post_pack(J, id, "urgency", urgency)
        IN IF urgency = orig_urgency THEN urgency_respond(K, orig_urgency, fault)
           ELSE
               LET priority ==
                       IF urgency = FLUX_JOB_URGENCY_HOLD THEN FLUX_JOB_PRIORITY_MIN
                       ELSE IF urgency = FLUX_JOB_URGENCY_EXPEDITE
                       THEN FLUX_JOB_PRIORITY_MAX
                       ELSE priority_of(urgency)
                   L == [K EXCEPT !.jobs[id].priority = priority]
               IN IF fault = "post_priority" THEN urgency_error(L, "post_priority", "")
                  ELSE urgency_respond(
                           urgency_requeue(event_job_post_pack(L, id, "priority", priority),
                                           id, urgency, fault),
                           orig_urgency, fault)

\* Install the job manager J after a request and record what it did.
UrgencyCommit(J, cred, id, urgency, fault) ==
    /\ active_jobs' = J.jobs
    /\ urgency_last' = [cred |-> cred, id |-> id, urgency |-> urgency, fault |-> fault,
                        resp |-> J.resp, events |-> J.events, sched |-> J.sched,
                        log |-> J.log]
    /\ UNCHANGED <<subprocesses, shutdown, fulfilled, auth_cb, destroyed, proc, hist, last,
                   alloc_vars, archive_vars>>

\* A user submits job id: it becomes active with the default urgency.
JobSubmit(users) ==
    \E id \in JobIds, u \in users :
        /\ ~active_jobs[id].active
        /\ active_jobs' = [active_jobs EXCEPT ![id] =
               [NoJob EXCEPT !.active = TRUE, !.userid = u,
                             !.urgency = FLUX_JOB_URGENCY_DEFAULT,
                             !.priority = priority_of(FLUX_JOB_URGENCY_DEFAULT)]]
        /\ UNCHANGED <<subprocesses, shutdown, fulfilled, auth_cb, destroyed, proc, hist,
                       last, alloc_vars, urgency_last, archive_vars>>

\* The scheduling of job id advances: queued for allocation, then the
\* allocation request pending at the scheduler, then resources allocated.
JobSched ==
    \E id \in JobIds :
        /\ active_jobs[id].active
        /\ ~active_jobs[id].has_resources
        /\ active_jobs' = [active_jobs EXCEPT ![id] =
               IF @.alloc_queued
               THEN [@ EXCEPT !.alloc_queued = FALSE, !.alloc_pending = TRUE]
               ELSE IF @.alloc_pending
               THEN [@ EXCEPT !.alloc_pending = FALSE, !.has_resources = TRUE]
               ELSE [@ EXCEPT !.alloc_queued = TRUE]]
        /\ UNCHANGED <<subprocesses, shutdown, fulfilled, auth_cb, destroyed, proc, hist,
                       last, alloc_vars, urgency_last, archive_vars>>

\* An urgency request arrives and is handled.
UrgencyRequest(creds, urgencies, faults) ==
    \E cred \in creds, id \in JobIds, urgency \in urgencies, fault \in faults :
        UrgencyCommit(urgency_handle_request(UCur, cred, id, urgency, fault),
                      cred, id, urgency, fault)

\* The owner, a guest, another guest, and a requester with no role.
SomeCreds ==
    {[userid |-> "alice", rolemask |-> "FLUX_ROLE_OWNER"],
     [userid |-> "alice", rolemask |-> "FLUX_ROLE_USER"],
     [userid |-> "bob", rolemask |-> "FLUX_ROLE_USER"],
     [userid |-> "bob", rolemask |-> "FLUX_ROLE_NONE"]}

\* Jobs of one user; requests whose calls all succeed, and requests of the
\* owner in which one call fails.
NextUrgency ==
    \/ JobSubmit({"alice"})
    \/ JobSched
    \/ UrgencyRequest(SomeCreds, Urgencies, {"none"})
    \/ UrgencyRequest({[userid |-> "alice", rolemask |-> "FLUX_ROLE_OWNER"]},
                      {FLUX_JOB_URGENCY_HOLD, FLUX_JOB_URGENCY_DEFAULT + 1},
                      UrgencyFaults \ {"none"})

SpecUrgency == Init /\ [][NextUrgency]_vars

\* ---------------------------------------------------- job-archive polling
\* What the job-list RPC of a cycle can answer, what can fail in
\* job_archive_cb, and how a job-info.lookup can end.
ListReplies == {"ok", "error"}

ArchiveFaults == {"none", "list_inactive", "future_then"}

LookupFailures == {"rpc_get", "aux_get", "json_unpack", "bind", "step"}

LookupResults == {"ok", "constraint"} \cup LookupFailures

\* t_inactive of a job, in whole seconds.
Times == 1..MaxListed

\* The jobs array of a job-list response: t_inactive of each job listed.
RECURSIVE SeqsUpTo(_, _)
SeqsUpTo(T, n) ==
    IF n = 0 THEN {<<>>}
    ELSE LET shorter == SeqsUpTo(T, n - 1)
         IN  shorter \cup {Append(q, t) : q \in shorter, t \in T}

Listings == SeqsUpTo(Times, MaxListed)

\* The sequence q without its k-th element.
Without(q, k) == [i \in 1..(Len(q) - 1) |-> IF i < k THEN q[i] ELSE q[i + 1]]

ArchCur ==
    [w |-> archive_w, kvs_lookup_count |-> kvs_lookup_count, since |-> archive_since,
     list |-> archive_list, lookups |-> archive_lookups,
     started |-> 0, stored |-> 0, log |-> 0]

\* flux_log_error / log_sqlite_error.
archive_log(A) == [A EXCEPT !.log = @ + 1]

\* flux_timer_watcher_reset (ctx->w, ctx->period, 0.); flux_watcher_start (ctx->w).
timer_rearm(A) == [A EXCEPT !.w = TRUE, !.started = @ + 1]

\* job_info_lookup of a listed job: the job-info.lookup RPC is sent with the
\* job attached and counted, or nothing is counted when a step of it fails.
job_info_lookup(A, job, ok) ==
    IF ok
    THEN [A EXCEPT !.lookups = Append(@, job), !.kvs_lookup_count = @ + 1]
    ELSE archive_log(A)

\* json_array_foreach over the jobs, the lookup of job failat failing
\* (failat = 0: none fails); the loop breaks at the first failure.
RECURSIVE lookup_each(_, _, _, _)
lookup_each(A, i, jobs, failat) ==
    IF i > Len(jobs) THEN A
    ELSE IF i = failat THEN job_info_lookup(A, jobs[i], FALSE)
    ELSE lookup_each(job_info_lookup(A, jobs[i], TRUE), i + 1, jobs, failat)

job_list_inactive_continuation(A, reply, jobs, failat) ==
    IF reply = "error"
    THEN \* flux_rpc_get_unpack < 0: logged, return
         archive_log([A EXCEPT !.list = FALSE])
    ELSE LET B == lookup_each([A EXCEPT !.list = FALSE], 1, jobs, failat)
         IN  IF B.kvs_lookup_count = 0 THEN timer_rearm(B) ELSE B

\* The continuation of the k-th awaited lookup.
job_info_lookup_continuation(A, k, result) ==
    LET t_inactive == A.lookups[k]
        B == IF result \in LookupFailures THEN archive_log(A)
             ELSE [A EXCEPT !.stored = IF result = "ok" THEN 1 ELSE 0,
                            !.since = IF t_inactive > @ THEN t_inactive ELSE @]
         \* out: the future is destroyed
        C == [B EXCEPT !.lookups = Without(@, k)]
     IN  IF C.kvs_lookup_count # 0
         THEN LET D == [C EXCEPT !.kvs_lookup_count = @ - 1]
              IN  IF D.kvs_lookup_count = 0 THEN timer_rearm(D) ELSE D
         ELSE C

\* The timer was created with repeat 0.: when it expires the reactor stops it
\* before its callback runs.
timer_expired(A) == [A EXCEPT !.w = FALSE]

\* The job-list RPC is sent and its continuation registered; when either
\* fails the callback logs and returns.
job_archive_cb(A, fault) ==
    IF fault = "none" THEN [A EXCEPT !.list = TRUE] ELSE archive_log(A)

ArchiveCommit(A, op, rearms) ==
    /\ archive_w' = A.w
    /\ kvs_lookup_count' = A.kvs_lookup_count
    /\ archive_since' = A.since
    /\ archive_list' = A.list
    /\ archive_lookups' = A.lookups
    /\ archive_rearms' = rearms + A.started
    /\ archive_last' = [op |-> op, started |-> A.started, stored |-> A.stored,
                        log |-> A.log]
    /\ UNCHANGED <<subprocesses, shutdown, fulfilled, auth_cb, destroyed, proc, hist, last,
                   alloc_vars, urgency_vars>>

\* The reactor runs job_archive_cb when the started timer expires.
TimerExpiry(faults) ==
    /\ archive_w
    /\ \E fault \in faults :
        ArchiveCommit(job_archive_cb(timer_expired(ArchCur), fault), "job_archive_cb", 0)

\* The response of the job-list RPC arrives: an error, or the inactive jobs.
ListReply(replies) ==
    /\ archive_list
    /\ \E reply \in replies, jobs \in Listings :
       \E failat \in 0..Len(jobs) :
        /\ (reply = "error") => (jobs = <<>> /\ failat = 0)
        /\ ArchiveCommit(job_list_inactive_continuation(ArchCur, reply, jobs, failat),
                         "job_list_inactive_continuation", archive_rearms)

\* The response of one job-info.lookup RPC arrives.
LookupReply(results) ==
    /\ \E k \in 1..Len(archive_lookups), result \in results :
        ArchiveCommit(job_info_lookup_continuation(ArchCur, k, result),
                      "job_info_lookup_continuation", archive_rearms)

NextArchive ==
    \/ TimerExpiry({"none"})
    \/ ListReply(ListReplies)
    \/ LookupReply(LookupResults)

SpecArchive == Init /\ [][NextArchive]_vars

\* ---------------------------------------------------------------- claims
InRegistry(p) == p \in Members(subprocesses)

\* The step ran the Failed transition of p, or its completion.
FailedOrCompletionOf(p) ==
    /\ last'.arg.pid = p
    /\ \/ last'.op = "completion"
       \/ last'.op = "state_change" /\ last'.arg.signum = "FAILED"

\* C1: the record of a process created by a successful exec is removed from
\* the Registry exactly once, on its Failed transition or on its completion,
\* never on both: while it has not been removed it is in the Registry and
\* its object is live, once it has been removed it has been removed once,
\* it is out of the Registry and its object is released (so that no later
\* completion reaches it), and every removal is made by one of those two
\* steps, for a record that was in the Registry.
C1_RemovedExactlyOnce ==
    /\ [](\A p \in Procs :
            /\ hist[p].removals <= 1
            /\ hist[p].removals = 1 => hist[p].saved /\ ~InRegistry(p) /\ ~Live(p)
            /\ (hist[p].saved /\ hist[p].removals = 0) => InRegistry(p) /\ Live(p)
            /\ ~hist[p].saved => ~InRegistry(p))
    /\ [][\A p \in Procs :
            hist'[p].removals # hist[p].removals =>
                /\ hist'[p].removals = hist[p].removals + 1
                /\ InRegistry(p)
                /\ FailedOrCompletionOf(p)]_vars

\* C1 witness: a record just removed by its Failed transition, its object
\* released, after another record was removed earlier.
C1_Witness ==
    /\ last.op = "state_change"
    /\ last.arg.signum = "FAILED"
    /\ hist[last.arg.pid].removals = 1
    /\ ~Live(last.arg.pid)
    /\ \E q \in Procs : q # last.arg.pid /\ hist[q].removals = 1

\* The server state a handler can change is as it was before the step.
ServerUnchanged == UNCHANGED <<subprocesses, shutdown, fulfilled, auth_cb, proc, hist>>

\* The step removed p from the Registry.
Removes(p) == InRegistry(p) /\ p \notin Members(subprocesses')

\* C2: the shutdown handle is fulfilled at most once, and exactly once as
\* soon as the Registry is empty while the handle is outstanding: it is
\* never fulfilled without a shutdown, the number of fulfillments never
\* exceeds one, and once it is one no later step changes it.
C2_FulfilledOnce ==
    /\ [](/\ fulfilled <= 1
          /\ shutdown = "NULL" => fulfilled = 0
          /\ (shutdown # "NULL" /\ subprocesses = <<>>) => fulfilled = 1)
    /\ [][fulfilled >= 1 => fulfilled' = fulfilled]_vars

\* C2 witness: two records were live at the shutdown call; the completion
\* that removed the last of them fulfilled the handle, once.
C2_Witness ==
    /\ shutdown # "NULL"
    /\ fulfilled = 1
    /\ last.op = "completion"
    /\ \A p \in Procs : hist[p].removals = 1

\* C3: whenever the handle is fulfilled the Registry is empty (so the handle
\* is pending while any of the N records live at the shutdown call is left),
\* and the step that fulfills it is the shutdown call on an empty Registry
\* or the Failed transition or completion that removes the last record.
C3_FulfilledOnlyWhenEmpty ==
    /\ [](fulfilled >= 1 => subprocesses = <<>>)
    /\ [][fulfilled' # fulfilled =>
            \/ /\ last'.op = "shutdown"
               /\ subprocesses = <<>>
               /\ shutdown = "NULL"
            \/ /\ shutdown # "NULL"
               /\ Len(subprocesses) = 1
               /\ subprocesses' = <<>>
               /\ FailedOrCompletionOf(subprocesses[1])]_vars

\* C3 witness: a shutdown is outstanding, a removal has just taken one of
\* two records out of the Registry, one record is left and the handle is
\* still pending.
C3_Witness ==
    /\ shutdown # "NULL"
    /\ fulfilled = 0
    /\ Len(subprocesses) = 1
    /\ last.op \in {"completion", "state_change"}
    /\ hist[last.arg.pid].removals = 1

\* C4: no removal that empties the Registry during a shutdown leaves the
\* handle pending, and, when every subprocess exits and every state change
\* and completion that is due is delivered, a shutdown that was called is
\* followed by the fulfillment of its handle.
C4_DrainCompletes ==
    /\ [][(shutdown # "NULL" /\ subprocesses # <<>> /\ subprocesses' = <<>>)
            => fulfilled' = 1]_vars
    /\ (shutdown # "NULL") ~> (fulfilled = 1)

\* C4 witness: the Failed transition of the last record emptied the Registry
\* during a shutdown and fulfilled the handle.
C4_Witness ==
    /\ shutdown # "NULL"
    /\ fulfilled = 1
    /\ subprocesses = <<>>
    /\ last.op = "state_change"
    /\ last.arg.signum = "FAILED"
    /\ hist[last.arg.pid].removals = 1

\* C5: a shutdown call made while a handle is outstanding fails with EINVAL
\* and returns no handle, whatever the signal; it sends no signal and
\* leaves the handle, its fulfillment, the Registry and every subprocess as
\* they were.
C5_SecondShutdownFails ==
    [][(last'.op = "shutdown" /\ shutdown # "NULL") =>
          /\ last'.ret = "NULL"
          /\ last'.errno = "EINVAL"
          /\ last'.sig = <<>>
          /\ last'.resp = <<>>
          /\ ServerUnchanged]_vars

\* C5 witness: a shutdown call with SIGKILL has just failed with EINVAL
\* while a pending handle and a record in the Registry exist.
C5_Witness ==
    /\ last.op = "shutdown"
    /\ last.arg.signum = "SIGKILL"
    /\ last.ret = "NULL"
    /\ last.errno = "EINVAL"
    /\ shutdown # "NULL"
    /\ fulfilled = 0
    /\ subprocesses # <<>>

\* C6: a shutdown call made while no handle is outstanding, and that
\* obtains its handle, stores it; it fulfills it within the call if and
\* only if the Registry is empty at the call, and then sends no signal;
\* with a non-empty Registry the handle is returned pending.  A call that
\* cannot allocate the handle changes nothing.
C6_FirstShutdown ==
    [][(last'.op = "shutdown" /\ shutdown = "NULL") =>
          \/ /\ last'.ret = "future"
             /\ shutdown' = "future"
             /\ (fulfilled' = 1) <=> (subprocesses = <<>>)
             /\ (fulfilled' = 0) <=> (subprocesses # <<>>)
             /\ subprocesses = <<>> => last'.sig = <<>>
          \/ /\ last'.ret = "NULL"
             /\ last'.errno = "ENOMEM"
             /\ last'.sig = <<>>
             /\ ServerUnchanged]_vars

\* C6 witness: the first shutdown call found the Registry empty, after a
\* record had been removed, and fulfilled the handle within the call.
C6_Witness ==
    /\ last.op = "shutdown"
    /\ last.ret = "future"
    /\ fulfilled = 1
    /\ last.sig = <<>>
    /\ \E p \in Procs : hist[p].removals = 1

\* C7: a shutdown call that creates the handle with a non-empty Registry
\* sends its signum once to each record of the Registry, in list order,
\* also to the records after one whose send failed, and removes no record
\* and changes no subprocess.
C7_ShutdownSignalsAll ==
    [][(last'.op = "shutdown" /\ last'.ret = "future" /\ subprocesses # <<>>) =>
          /\ Len(last'.sig) = Len(subprocesses)
          /\ \A i \in 1..Len(subprocesses) :
                /\ last'.sig[i].pid = subprocesses[i]
                /\ last'.sig[i].signum = last'.arg.signum
                /\ last'.sig[i].via = "kill"
          /\ subprocesses' = subprocesses
          /\ proc' = proc
          /\ hist' = hist]_vars

\* C7 witness: shutdown(SIGTERM) with two records; the send to the first
\* failed and the second was signalled all the same.
C7_Witness ==
    /\ last.op = "shutdown"
    /\ last.arg.signum = "SIGTERM"
    /\ Len(last.sig) = 2
    /\ ~last.sig[1].ok
    /\ last.sig[2].ok
    /\ Len(subprocesses) = 2

\* One error response to the rexec.exec request of requester u.
OneExecError(resp, u) ==
    /\ Len(resp) = 1
    /\ resp[1].type = "error"
    /\ resp[1].errno # "0"
    /\ resp[1].to = Req("rexec.exec", u, 0)

\* The step created no subprocess record: the Registry and the subprocess
\* records saved so far are as before, and no subprocess object is left.
NoRecordCreated ==
    /\ subprocesses' = subprocesses
    /\ \A p \in Procs : hist'[p] = hist[p] /\ (proc'[p].obj = "live" <=> proc[p].obj = "live")

\* C8: while a shutdown handle is outstanding every exec request gets one
\* error response, spawns no process and creates no record, and no step
\* makes the Registry longer.
C8_NoExecAfterShutdown ==
    [][shutdown # "NULL" =>
          /\ Len(subprocesses') <= Len(subprocesses)
          /\ last'.op = "exec" =>
                /\ OneExecError(last'.resp, last'.arg.sender)
                /\ last'.step \in {"unpack", "shutdown"}
                /\ proc' = proc
                /\ NoRecordCreated]_vars

\* C8 witness: a well-formed exec from an authorized requester was refused
\* with ENOSYS during a shutdown whose handle is still pending.
C8_Witness ==
    /\ last.op = "exec"
    /\ last.step = "shutdown"
    /\ last.resp[1].errno = "ENOSYS"
    /\ last.arg.sender = "U1"
    /\ shutdown # "NULL"
    /\ fulfilled = 0

\* The steps of server_exec_cb whose failure is reported with a reason.
StepsWithReason == {"shutdown", "auth", "parse", "empty", "env", "spawn"}

\* The steps of server_exec_cb whose failure is reported with errno alone.
StepsWithoutReason == {"unpack", "aux_msg", "aux_srv", "add_end", "aux_lst"}

\* C9 as stated: an exec request that fails at any step gets exactly one
\* error response with an errno and a human-readable reason, and the
\* Registry is left as it was.
C9_Original ==
    [][(last'.op = "exec" /\ last'.step # "ok") =>
          /\ OneExecError(last'.resp, last'.arg.sender)
          /\ last'.resp[1].msg # ""
          /\ NoRecordCreated]_vars

\* C9 amended: an exec request that fails at any step gets exactly one
\* error response with an errno, and no record is created; the response
\* carries a reason when the failure is the shutdown check, the
\* authorization, the command parse, the empty command, the environment
\* setup or the spawn, and no reason when the request is malformed or when
\* attaching the request or the server to the process or the registry
\* insert fails.
C9_ExecFailure ==
    [][(last'.op = "exec" /\ last'.step # "ok") =>
          /\ OneExecError(last'.resp, last'.arg.sender)
          /\ last'.step \in StepsWithReason \cup StepsWithoutReason
          /\ last'.step \in StepsWithReason <=> last'.resp[1].msg # ""
          /\ NoRecordCreated]_vars

\* C9 witness: the registry insert failed (ENOMEM) for an exec while the
\* Registry held a record; one error was sent, without a reason.
C9_Witness ==
    /\ last.op = "exec"
    /\ last.step = "add_end"
    /\ Len(last.resp) = 1
    /\ last.resp[1].errno = "ENOMEM"
    /\ last.resp[1].msg = ""
    /\ Len(subprocesses) = 1

\* C10: when the authorization callback is set and fails an exec, kill or
\* list request, the requester gets exactly one EPERM error with the
\* callback's reason, and nothing else happens: no subprocess is created,
\* no signal is sent, no list is returned, the server state is unchanged.
\* A requester the callback denies never gets past it: its requests end at
\* the callback or at a check made before it.
C10_AuthDenied ==
    [][(last'.op \in {"exec", "kill", "list"} /\ auth_cb # "NULL"
            /\ AuthDenies(last'.arg.sender)) =>
          /\ last'.step \in {"auth", "unpack", "shutdown"}
          /\ last'.op = "list" => last'.step = "auth"
          /\ last'.op = "kill" => last'.step \in {"auth", "unpack"}
          /\ Len(last'.resp) = 1
          /\ last'.resp[1].type = "error"
          /\ last'.resp[1].to.sender = last'.arg.sender
          /\ last'.step = "auth" =>
                /\ last'.resp[1].errno = "EPERM"
                /\ last'.resp[1].msg = AuthReason(last'.arg.sender)
          /\ last'.sig = <<>>
          /\ ServerUnchanged]_vars

\* C10 witness: a kill request for a pid in the Registry was refused with
\* EPERM and the callback's reason, and no signal was sent.
C10_Witness ==
    /\ last.op = "kill"
    /\ last.step = "auth"
    /\ InRegistry(last.arg.pid)
    /\ last.resp[1].errno = "EPERM"
    /\ last.resp[1].msg = AuthReason(last.arg.sender)
    /\ last.sig = <<>>

\* The write request of the step is well formed and addressed to a record
\* of the Registry whose process is Running.
WriteToRunning ==
    /\ last'.op = "write"
    /\ last'.arg.req.shape = "ok"
    /\ InRegistry(last'.arg.pid)
    /\ proc[last'.arg.pid].state = "RUNNING"

\* The stream operations of a write request that is applied: the payload,
\* if any, is written, and on eof the stream is closed after a good write.
StreamOps(w) ==
    (IF w.len > 0 THEN <<"write">> ELSE <<>>)
        \o (IF w.eof /\ (w.len = 0 \/ w.wres = "ok") THEN <<"close">> ELSE <<>>)

\* The records of the Registry whose exec requester is u, in list order.
OwnedBy(u) == SelectSeq(subprocesses, LAMBDA p : proc[p].sender = u)

\* The step sent SIGKILL through flux_subprocess_kill to the records owned
\* by u, once each in list order, and no other signal.
KillsOwnedBy(u) ==
    /\ Len(last'.sig) = Len(OwnedBy(u))
    /\ \A i \in 1..Len(last'.sig) :
          /\ last'.sig[i].pid = OwnedBy(u)[i]
          /\ last'.sig[i].signum = "SIGKILL"
          /\ last'.sig[i].via = "kill"

\* C11 as stated: the authorization callback is not consulted for write or
\* disconnect: a write addressed to a Running process is applied and a
\* disconnect kills the matching processes whatever the callback's verdict.
C11_Original ==
    [][/\ WriteToRunning => last'.io = StreamOps(last'.arg.req)
       /\ last'.op = "disconnect" => KillsOwnedBy(last'.arg.sender)]_vars

\* C11 amended: the authorization callback is consulted for write and not
\* for disconnect: a write addressed to a Running process is applied when
\* no callback is set or the callback approves the requester, and is
\* dropped with one log entry, no stream operation, no response and no
\* change of state when the callback denies it; a disconnect kills the
\* matching processes whatever the callback's verdict.
C11_AuthOnWrite ==
    [][/\ WriteToRunning =>
             IF auth_cb # "NULL" /\ AuthDenies(last'.arg.sender)
             THEN /\ last'.io = <<>>
                  /\ last'.resp = <<>>
                  /\ last'.sig = <<>>
                  /\ last'.log = 1
                  /\ last'.errno = "EPERM"
                  /\ ServerUnchanged
             ELSE last'.io = StreamOps(last'.arg.req)
       /\ last'.op = "disconnect" => KillsOwnedBy(last'.arg.sender)]_vars

\* C11 witness: a write with payload and eof, from a requester the callback
\* denies, to a Running process that requester owns, was dropped.
C11_Witness ==
    /\ last.op = "write"
    /\ last.step = "auth"
    /\ last.arg.req.len > 0
    /\ last.arg.req.eof
    /\ last.io = <<>>
    /\ InRegistry(last.arg.pid)
    /\ proc[last.arg.pid].state = "RUNNING"
    /\ proc[last.arg.pid].sender = last.arg.sender

\* The write request of the step decodes and its pid matches no record of
\* the Registry.
WriteToUnknownPid ==
    /\ last'.op = "write"
    /\ last'.arg.req.shape = "ok"
    /\ ~InRegistry(last'.arg.pid)

\* The write was dropped: no state changed, nothing was sent, written,
\* closed or signalled, and there is an error log entry exactly when the
\* request did not carry eof.
DroppedQuietlyOnEof ==
    /\ ServerUnchanged
    /\ last'.resp = <<>>
    /\ last'.io = <<>>
    /\ last'.sig = <<>>
    /\ last'.log = (IF last'.arg.req.eof THEN 0 ELSE 1)

\* C12 as stated: a write request whose pid matches no record of the
\* Registry changes no state and sends no response, and makes no error log
\* entry when its eof flag is set and exactly one when it is not.
C12_Original == [][WriteToUnknownPid => DroppedQuietlyOnEof]_vars

\* C12 amended: a write request that passes the authorization (no callback
\* is set, or the callback approves the requester), whose payload decodes
\* and whose pid matches no record of the Registry changes no state and
\* sends no response, and makes no error log entry when its eof flag is set
\* and exactly one when it is not.
C12_UnknownPidWrite ==
    [][(WriteToUnknownPid /\ ~(auth_cb # "NULL" /\ AuthDenies(last'.arg.sender)))
          => DroppedQuietlyOnEof]_vars

\* C12 witness: with a callback set, a write carrying eof from an approved
\* requester, for the pid of a record already removed, left no log entry.
C12_Witness ==
    /\ last.op = "write"
    /\ last.step = "notfound"
    /\ last.arg.req.eof
    /\ last.log = 0
    /\ auth_cb # "NULL"
    /\ hist[last.arg.pid].removals = 1

\* The write or the close of the request w fails: the write returns an
\* error or a length other than the payload's, or the close that follows a
\* good write returns an error.
WriteFails(w) ==
    \/ w.len > 0 /\ w.wres # "ok"
    \/ w.eof /\ (w.len = 0 \/ w.wres = "ok") /\ w.cres = "fail"

\* The step is the Failed state change of p.
FailedTransitionOf(p) ==
    /\ last'.op = "state_change"
    /\ last'.arg.pid = p
    /\ last'.arg.signum = "FAILED"

C14_KillUnknownPid ==
    [][(last'.op = "kill" /\ ~auth_fails(last'.arg.sender) /\ ~InRegistry(last'.arg.pid)) =>
          /\ Len(last'.resp) = 1
          /\ last'.resp[1].type = "error"
          /\ last'.resp[1].to = Req("rexec.kill", last'.arg.sender, 0)
          /\ last'.step \in {"notfound", "unpack"}
          /\ last'.step = "notfound" => last'.resp[1].errno = "ENOENT"
          /\ last'.sig = <<>>
          /\ ServerUnchanged]_vars

\* C14 witness: with a callback set, a kill from an approved requester for
\* the pid of a record removed earlier got ENOENT and no signal was sent,
\* while another record is in the Registry.
C14_Witness ==
    /\ last.op = "kill"
    /\ last.step = "notfound"
    /\ last.resp[1].errno = "ENOENT"
    /\ last.sig = <<>>
    /\ auth_cb # "NULL"
    /\ hist[last.arg.pid].removals = 1
    /\ subprocesses # <<>>

\* The outcomes of the requests: the branch the handler ended in.
KillOutcomes == {"unpack", "auth", "notfound", "killpg", "ok"}

ListOutcomes == {"auth", "nomem", "ok"}

WriteOutcomes == {"unpack", "auth", "iodecode", "notfound", "notrunning",
                  "write_error", "close_error", "ok"}

\* C15: every kill request and every list request is answered with
\* exactly one response, a success or an error, addressed to that request
\* of its sender, and every write request and every disconnect
\* notification is answered with no response, whatever the outcome.
C15_ResponseCounts ==
    [][/\ last'.op = "kill" =>
             /\ last'.step \in KillOutcomes
             /\ Len(last'.resp) = 1
             /\ last'.resp[1].to = Req("rexec.kill", last'.arg.sender, 0)
             /\ last'.resp[1].type = (IF last'.step = "ok" THEN "ok" ELSE "error")
       /\ last'.op = "list" =>
             /\ last'.step \in ListOutcomes
             /\ Len(last'.resp) = 1
             /\ last'.resp[1].to = Req("rexec.list", last'.arg.sender, 0)
             /\ last'.resp[1].type = (IF last'.step = "ok" THEN "list" ELSE "error")
       /\ last'.op = "write" =>
             /\ last'.step \in WriteOutcomes
             /\ last'.resp = <<>>
       /\ last'.op = "disconnect" => last'.resp = <<>>]_vars

\* C15 witness: a write from the requester that owns no process failed at
\* the close of the stream of a Running process, which is now Failed, and
\* nothing was sent.
C15_Witness ==
    /\ last.op = "write"
    /\ last.step = "close_error"
    /\ last.arg.sender = "U2"
    /\ last.resp = <<>>
    /\ proc[last.arg.pid].state = "FAILED"
    /\ proc[last.arg.pid].sender = "U1"

\* C16: a disconnect notification from identity U sends SIGKILL to exactly
\* the records of the Registry whose exec requester is U, once each, also
\* after a send that failed, and to no other record; no record is removed
\* and no subprocess, of U or of another identity, changes state.
C16_DisconnectKillsOwn ==
    [][last'.op = "disconnect" =>
          /\ KillsOwnedBy(last'.arg.sender)
          /\ \A i \in 1..Len(last'.sig) : proc[last'.sig[i].pid].sender = last'.arg.sender
          /\ \A p \in Members(subprocesses) :
                proc[p].sender = last'.arg.sender <=>
                    \E i \in 1..Len(last'.sig) : last'.sig[i].pid = p
          /\ ServerUnchanged]_vars

\* C16 witness: a disconnect from U1, which owns one of the two records of
\* the Registry, sent one SIGKILL, to that record; the other is owned by U2.
C16_Witness ==
    /\ last.op = "disconnect"
    /\ last.arg.sender = "U1"
    /\ Len(subprocesses) = 2
    /\ Len(last.sig) = 1
    /\ last.sig[1].signum = "SIGKILL"
    /\ proc[last.sig[1].pid].sender = "U1"
    /\ \E p \in Members(subprocesses) : proc[p].sender = "U2" /\ proc[p].state = "RUNNING"

\* The number of terminal frames sent so far to the requester of p.
TerminalFrames(p) == hist[p].eod + hist[p].fail

StaysLive(p) == Live(p) /\ proc'[p].obj = "live"

\* C19 as stated: a process starts Running, and once it is Exited or
\* Failed its state never changes again.
C19_Original ==
    [][\A p \in Procs :
          /\ (~Live(p) /\ proc'[p].obj = "live") => proc'[p].state = "RUNNING"
          /\ (StaysLive(p) /\ proc[p].state \in {"EXITED", "FAILED"}) =>
                proc'[p].state = proc[p].state]_vars

\* C19 amended: a process starts Running; it never returns to Running;
\* once Failed it never changes again (nor does its failure errno, and it
\* is not killed again); once Exited it never changes again except that an
\* internal fatal error of an output callback (a failed read, encoding or
\* send) still turns it Failed.
C19_StateMonotonic ==
    [][\A p \in Procs :
          /\ (~Live(p) /\ proc'[p].obj = "live") => proc'[p].state = "RUNNING"
          /\ (StaysLive(p) /\ proc[p].state = "FAILED") =>
                /\ proc'[p].state = "FAILED"
                /\ proc'[p].failed_errno = proc[p].failed_errno
                /\ \A i \in 1..Len(last'.sig) : last'.sig[i].pid # p
          /\ (StaysLive(p) /\ proc[p].state = "EXITED") =>
                \/ proc'[p].state = "EXITED"
                \/ /\ proc'[p].state = "FAILED"
                   /\ last'.op = "output"
                   /\ last'.arg.pid = p
                   /\ last'.arg.signum \in {"read_fail", "encode_fail", "respond_fail"}]_vars

\* C19 witness: the read of an output callback failed for a process whose
\* Exited state had been reported; the process is now Failed.
C19_Witness ==
    /\ last.op = "output"
    /\ last.arg.signum = "read_fail"
    /\ proc[last.arg.pid].state = "FAILED"
    /\ proc[last.arg.pid].reported = "EXITED"
    /\ Len(last.sig) = 1

FramesOfEvent(e, f, p) ==
    CASE e = <<"state_change", "RUNNING">> -> f = << <<"state", "RUNNING", p>> >>
      [] e = <<"state_change", "EXITED">>  -> f = << <<"state", "EXITED", 0>> >>
      [] e = <<"output", "data">>          -> f = << <<"output", FALSE, p>> >>
      [] e = <<"output", "eof">>           -> f = << <<"output", TRUE, p>> >>
      [] e = <<"completion", "">>          -> f = << <<"error", "ENODATA", 0>> >>
      [] OTHER                             -> FALSE

\* The events of the scenario, in order.
EchoEvents ==
    << <<"state_change", "RUNNING">>, <<"output", "data">>, <<"output", "eof">>,
       <<"state_change", "EXITED">>, <<"completion", "">> >>

\* The frames of the scenario for subprocess p, in order.
EchoFrames(p) ==
    << <<"state", "RUNNING", p>>, <<"output", FALSE, p>>, <<"output", TRUE, p>>,
       <<"state", "EXITED", 0>>, <<"error", "ENODATA", 0>> >>

\* The events of a recorded stream, and the frames sent, in order.
EventsOf(t) == [i \in 1..Len(t) |-> t[i].event]

RECURSIVE FramesOf(_)
FramesOf(t) == IF t = <<>> THEN <<>> ELSE Head(t).frames \o FramesOf(Tail(t))

UniquePids(l) == \A i, j \in 1..Len(l) : i # j => l[i] # l[j]

C24_CompletionEndOfData ==
    [][last'.op = "completion" =>
          LET p == last'.arg.pid
          IN  /\ IF proc[p].state # "FAILED"
                 THEN /\ Len(last'.resp) = 1
                      /\ last'.resp[1].type = "error"
                      /\ last'.resp[1].errno = "ENODATA"
                      /\ last'.resp[1].to = Req("rexec.exec", proc[p].sender, p)
                      /\ hist'[p].eod = 1
                 ELSE /\ last'.resp = <<>>
                      /\ hist'[p].eod = 0
              /\ Removes(p)
              /\ subprocesses' = Remove(subprocesses, p)
              /\ last'.sig = <<>>
              /\ \A q \in Procs \ {p} : proc'[q] = proc[q]]_vars

\* C24 witness: the first process completed with its end-of-data frame;
\* the completion of the second, which a failed read had marked Failed
\* after its exit, has now removed its record without any frame.
C24_Witness ==
    /\ last.op = "completion"
    /\ last.arg.pid = 2
    /\ last.resp = <<>>
    /\ hist[2].removals = 1
    /\ hist[2].eod = 0
    /\ hist[1].eod = 1
    /\ hist[1].removals = 1

\* The errno of the failure the handler of the step met: of the write, of
\* the close, of the read, or of the encoding or the send of a frame.
CauseErrno ==
    CASE last'.op = "write" /\ last'.arg.req.len > 0 /\ last'.arg.req.wres = "short" ->
             "EOVERFLOW"
      [] last'.op = "write" /\ last'.arg.req.len > 0 /\ last'.arg.req.wres = "fail" ->
             "errno:flux_subprocess_write"
      [] last'.op = "write" /\ last'.arg.req.eof /\ last'.arg.req.cres = "fail" ->
             "errno:flux_subprocess_close"
      [] last'.op = "output" /\ last'.arg.signum = "read_fail" ->
             "errno:flux_subprocess_read"
      [] last'.op = "output" /\ last'.arg.signum = "encode_fail" ->
             "errno:ioencode"
      [] last'.op = "output" /\ last'.arg.signum = "respond_fail" ->
             "errno:flux_respond_pack"
      [] OTHER -> "no failure"

\* C25: the Failed state change of a process sends the requester of its
\* exec exactly one response, an error whose errno is the failure errno
\* recorded for the process, and removes the record from the Registry in
\* the same step, releasing the process, without a completion; the failure
\* errno is written only in the step that turns the process Failed, where
\* it is the errno of the failure: EOVERFLOW for a short write, the errno
\* of the write, close, read, encoding or send otherwise.
C25_FailedTransition ==
    /\ [][\A p \in Procs :
            FailedTransitionOf(p) =>
                /\ proc[p].state = "FAILED"
                /\ Len(last'.resp) = 1
                /\ last'.resp[1].type = "error"
                /\ last'.resp[1].errno = proc[p].failed_errno
                /\ last'.resp[1].to = Req("rexec.exec", proc[p].sender, p)
                /\ Removes(p)
                /\ proc'[p].obj = "freed"
                /\ last'.sig = <<>>]_vars
    /\ [][\A p \in Procs :
            /\ (~Live(p) /\ proc'[p].obj = "live") => proc'[p].failed_errno = "0"
            /\ (StaysLive(p) /\ proc'[p].failed_errno # proc[p].failed_errno) =>
                  /\ proc[p].state # "FAILED"
                  /\ proc'[p].state = "FAILED"
            /\ (StaysLive(p) /\ proc[p].state # "FAILED" /\ proc'[p].state = "FAILED") =>
                  /\ last'.arg.pid = p
                  /\ proc'[p].failed_errno = CauseErrno
                  /\ proc'[p].failed_errno = last'.errno]_vars

\* C25 witness: the close of a stream failed for the second process; its
\* Failed state change has sent the errno of the close to the requester and
\* removed the record, while the first process is still in the Registry.
C25_Witness ==
    /\ last.op = "state_change"
    /\ last.arg.signum = "FAILED"
    /\ last.arg.pid = 2
    /\ Len(last.resp) = 1
    /\ last.resp[1].errno = "errno:flux_subprocess_close"
    /\ hist[2].removals = 1
    /\ proc[2].obj = "freed"
    /\ subprocesses = <<1>>

\* The step is the Exited state change of p.
ExitedTransitionOf(p) ==
    /\ last'.op = "state_change"
    /\ last'.arg.pid = p
    /\ last'.arg.signum = "EXITED"

\* The Exited state change of p sends one state frame with the state
\* Exited (and no pid) to the requester of its exec and removes nothing.
ExitedFrameOnly(p) ==
    /\ Len(last'.resp) = 1
    /\ last'.resp[1].type = "state"
    /\ last'.resp[1].state = "EXITED"
    /\ last'.resp[1].to = Req("rexec.exec", proc[p].sender, p)
    /\ last'.sig = <<>>
    /\ subprocesses' = subprocesses
    /\ proc'[p].obj = "live"
    /\ proc'[p].state = "EXITED"

\* The process of p has been reported Exited and its record is in the
\* Registry.
ExitedRecord(p) == Live(p) /\ InRegistry(p) /\ proc[p].reported = "EXITED"

\* The requests of the step see the record of p: a list that succeeds
\* names it, a well-formed kill for its pid signals it, and a disconnect
\* of its requester kills it.
VisibleToRequests(p) ==
    /\ (last'.op = "list" /\ last'.step = "ok") =>
          \E i \in 1..Len(last'.resp[1].procs) : last'.resp[1].procs[i].pid = p
    /\ (last'.op = "kill" /\ last'.arg.pid = p /\ last'.step # "unpack") =>
          /\ last'.step = "ok"
          /\ Len(last'.sig) = 1
          /\ last'.sig[1].pid = p
    /\ (last'.op = "disconnect" /\ last'.arg.sender = proc[p].sender) =>
          \E i \in 1..Len(last'.sig) : last'.sig[i].pid = p /\ last'.sig[i].signum = "SIGKILL"

\* C26 as stated: the Exited state change sends one state frame and does
\* not remove the record; the record stays in the Registry, visible to
\* list, kill and disconnect, until the completion of the process.
C26_Original ==
    [][\A p \in Procs :
          /\ ExitedTransitionOf(p) => ExitedFrameOnly(p)
          /\ ExitedRecord(p) =>
                /\ VisibleToRequests(p)
                /\ Removes(p) => (last'.op = "completion" /\ last'.arg.pid = p)]_vars

\* C26 amended: the Exited state change sends one state frame and does not
\* remove the record; while the server exists the record stays in the
\* Registry, visible to list, kill and disconnect, until the completion of
\* the process or, when an output callback of the exited process fails,
\* until the Failed state change that follows.
C26_ExitedKeepsRecord ==
    [][\A p \in Procs :
          /\ ExitedTransitionOf(p) => ExitedFrameOnly(p)
          /\ ExitedRecord(p) =>
                /\ VisibleToRequests(p)
                /\ Removes(p) =>
                      \/ last'.op = "completion" /\ last'.arg.pid = p
                      \/ FailedTransitionOf(p)
                /\ (StaysLive(p) /\ proc[p].state = "EXITED" /\ proc'[p].state = "FAILED") =>
                      /\ last'.op = "output"
                      /\ last'.arg.pid = p
                      /\ last'.arg.signum \notin {"data", "eof"}]_vars

\* C26 witness: a kill request has signalled a process whose Exited state
\* had been reported and whose record, the second of two, is still in the
\* Registry.
C26_Witness ==
    /\ last.op = "kill"
    /\ last.step = "ok"
    /\ Len(last.sig) = 1
    /\ last.sig[1].pid = last.arg.pid
    /\ proc[last.arg.pid].reported = "EXITED"
    /\ proc[last.arg.pid].state = "EXITED"
    /\ Len(subprocesses) = 2
    /\ subprocesses[2] = last.arg.pid

\* The handler of the step took the internal fatal path for p: a write to
\* the Running process p failed or came back short, its close failed, or
\* the read of an output callback of p, or the encoding or the send of its
\* frame, failed.
FatalPathOf(p) ==
    /\ last'.arg.pid = p
    /\ \/ WriteToRunning /\ ~auth_fails(last'.arg.sender) /\ WriteFails(last'.arg.req)
       \/ /\ last'.op = "output"
          /\ last'.arg.signum \in {"read_fail", "encode_fail", "respond_fail"}

\* The SIGKILLs the step sent to the process group of p.
GroupKills(p) ==
    SelectSeq(last'.sig, LAMBDA g : g.via = "killpg" /\ g.pid = p /\ g.signum = "SIGKILL")

\* C27: the internal fatal path, taken for a process that is already
\* Failed, changes nothing: no state or errno change, no response, no
\* signal, no Registry change; taken for a process that is not Failed it
\* marks it Failed, records the errno, makes the Failed notification due
\* and sends one SIGKILL to the process group.  So a SIGKILL goes to the
\* group of a process only in the step that turns it Failed, a Failed
\* process stays Failed, and whatever the number of write, close or read
\* failures the requester is sent at most one failure response.
C27_FatalIdempotent ==
    /\ [][\A p \in Procs :
            (Live(p) /\ FatalPathOf(p)) =>
                IF proc[p].state = "FAILED"
                THEN /\ ServerUnchanged
                     /\ last'.resp = <<>>
                     /\ last'.sig = <<>>
                ELSE /\ proc'[p] = [proc[p] EXCEPT !.state = "FAILED",
                                                   !.failed_errno = last'.errno,
                                                   !.notify = TRUE]
                     /\ last'.errno # "0"
                     /\ Len(last'.sig) = 1
                     /\ Len(GroupKills(p)) = 1
                     /\ last'.resp = <<>>
                     /\ subprocesses' = subprocesses]_vars
    /\ [][\A p \in Procs :
            /\ Len(GroupKills(p)) =
                  (IF Live(p) /\ proc[p].state # "FAILED" /\ proc'[p].state = "FAILED"
                   THEN 1 ELSE 0)
            /\ (StaysLive(p) /\ proc[p].state = "FAILED") => proc'[p].state = "FAILED"]_vars
    /\ [](\A p \in Procs : hist[p].fail <= 1)

\* C27 witness: a read failed for a process that a short write had already
\* marked Failed: nothing was sent or signalled and the recorded errno is
\* still that of the short write.
C27_Witness ==
    /\ last.op = "output"
    /\ last.arg.signum = "read_fail"
    /\ last.sig = <<>>
    /\ last.resp = <<>>
    /\ last.errno = "errno:flux_subprocess_read"
    /\ proc[last.arg.pid].state = "FAILED"
    /\ proc[last.arg.pid].failed_errno = "EOVERFLOW"
    /\ InRegistry(last.arg.pid)

\* The write request of the step decodes and its pid matches a record of
\* the Registry whose process is no longer Running.
WriteToStopped ==
    /\ last'.op = "write"
    /\ last'.arg.req.shape = "ok"
    /\ InRegistry(last'.arg.pid)
    /\ proc[last'.arg.pid].state # "RUNNING"

\* The request was dropped: nothing was written, closed, sent or
\* signalled, and nothing changed; n error log entries were made.
DroppedWithLog(n) ==
    /\ last'.io = <<>>
    /\ last'.resp = <<>>
    /\ last'.sig = <<>>
    /\ last'.log = n
    /\ ServerUnchanged

\* C28 as stated: a write request whose pid matches a record that is no
\* longer Running is dropped: no write, no close, no log entry, no
\* response, no change of the process state or of the Registry.
C28_Original == [][WriteToStopped => DroppedWithLog(0)]_vars

\* C28 amended: a write request that passes the authorization (no callback
\* is set, or the callback approves the requester), whose payload decodes
\* and whose pid matches a record that is no longer Running (Exited, or
\* Failed and still present) is dropped: no write, no close, no log entry,
\* no response, no change of the process state or of the Registry; a
\* request the callback denies is dropped as well, with one log entry.
C28_LateWriteDropped ==
    [][WriteToStopped =>
          IF auth_cb # "NULL" /\ AuthDenies(last'.arg.sender)
          THEN DroppedWithLog(1) /\ last'.step = "auth"
          ELSE DroppedWithLog(0) /\ last'.step = "notrunning"]_vars

\* C28 witness: with a callback set, a write with payload and eof from the
\* approved requester to its process, which a short write had marked
\* Failed and whose record is still present, was dropped.
C28_Witness ==
    /\ last.op = "write"
    /\ last.step = "notrunning"
    /\ last.arg.req.len > 0
    /\ last.arg.req.eof
    /\ last.io = <<>>
    /\ last.log = 0
    /\ auth_cb # "NULL"
    /\ InRegistry(last.arg.pid)
    /\ proc[last.arg.pid].state = "FAILED"
    /\ proc[last.arg.pid].failed_errno = "EOVERFLOW"

\* C29: for a write request to a Running process: the payload is written
\* only if it is not empty; the stream is closed only if eof is set, and
\* then after the write; the close is not attempted when the write failed
\* or came back short; a request with an empty payload and no eof performs
\* no stream operation and changes no state; and a request that passes
\* the authorization performs exactly these operations.
C29_WriteThenClose ==
    [][WriteToRunning =>
          LET w == last'.arg.req
              io == last'.io
          IN  /\ io \in {<<>>, <<"write">>, <<"close">>, <<"write", "close">>}
              /\ (\E i \in 1..Len(io) : io[i] = "write") => w.len > 0
              /\ (\E i \in 1..Len(io) : io[i] = "close") =>
                    /\ w.eof
                    /\ w.len > 0 => (io = <<"write", "close">> /\ w.wres = "ok")
              /\ (io # <<>> /\ io[1] = "write" /\ w.wres # "ok") => io = <<"write">>
              /\ (w.len = 0 /\ ~w.eof) =>
                    /\ io = <<>>
                    /\ last'.sig = <<>>
                    /\ last'.resp = <<>>
                    /\ ServerUnchanged
              /\ ~auth_fails(last'.arg.sender) => io = StreamOps(w)]_vars

\* C29 witness: a write with payload and eof came back short: the payload
\* was written, the stream was not closed and the process is now Failed.
C29_Witness ==
    /\ last.op = "write"
    /\ last.step = "write_error"
    /\ last.arg.req.eof
    /\ last.arg.req.wres = "short"
    /\ last.io = <<"write">>
    /\ proc[last.arg.pid].state = "FAILED"

\* C30: an output callback that reads one or more bytes, or none, sends
\* exactly one output frame to the requester of the exec, for the stream
\* and the pid of the callback, with eof = false when bytes were read and
\* eof = true when none were, and changes nothing; a callback whose read
\* fails, or whose frame cannot be encoded or sent, sends no frame, logs
\* the error and takes the internal fatal path: the process is Failed
\* afterwards, and unless it already was its errno is recorded, its Failed
\* notification is due and its process group is sent SIGKILL.
C30_OneFramePerOutput ==
    [][last'.op = "output" =>
          LET p == last'.arg.pid
              res == last'.arg.signum
          IN  IF res \in {"data", "eof"}
              THEN /\ Len(last'.resp) = 1
                   /\ last'.resp[1].type = "output"
                   /\ last'.resp[1].eof = (res = "eof")
                   /\ last'.resp[1].pid = p
                   /\ last'.resp[1].msg = last'.arg.sender
                   /\ last'.resp[1].to = Req("rexec.exec", proc[p].sender, p)
                   /\ last'.sig = <<>>
                   /\ last'.log = 0
                   /\ ServerUnchanged
              ELSE /\ last'.resp = <<>>
                   /\ last'.log = 1
                   /\ proc'[p].state = "FAILED"
                   /\ subprocesses' = subprocesses
                   /\ IF proc[p].state = "FAILED"
                      THEN ServerUnchanged /\ last'.sig = <<>>
                      ELSE /\ proc'[p].failed_errno = last'.errno
                           /\ proc'[p].notify
                           /\ Len(last'.sig) = 1
                           /\ Len(GroupKills(p)) = 1]_vars

\* C30 witness: the frame of an output callback on stderr of a process
\* that had exited could not be sent: no frame went out, the process is
\* Failed with the errno of the send and its group was sent SIGKILL.
C30_Witness ==
    /\ last.op = "output"
    /\ last.arg.signum = "respond_fail"
    /\ last.arg.sender = "stderr"
    /\ last.resp = <<>>
    /\ Len(last.sig) = 1
    /\ proc[last.arg.pid].state = "FAILED"
    /\ proc[last.arg.pid].failed_errno = "errno:flux_respond_pack"
    /\ proc[last.arg.pid].reported = "EXITED"

\* The resources job j holds: those of its alloc event, until its free
\* event or its failed hello handshake.
Held(j) == IF granted[j].phase = "run" THEN granted[j].R ELSE {}

\* The callback of the step raised a fatal alloc-check exception on job id.
RaisedOn(id) ==
    \E i \in 1..Len(jobtap_last'.raised) :
        /\ jobtap_last'.raised[i].id = id
        /\ jobtap_last'.raised[i].type = "alloc-check"
        /\ jobtap_last'.raised[i].severity = 0

\* C21: over any sequence of alloc, free and scheduler-restart exception
\* events, every job.event.alloc whose resources overlap the resources
\* held by another job, allocated and not yet freed, raises a fatal
\* alloc-check exception on the job of the event.
C21_DoubleBookingRaises ==
    [][\A id \in Jobs :
          (/\ jobtap_last'.topic = "job.event.alloc"
           /\ jobtap_last'.id = id
           /\ granted[id].phase = "new"
           /\ \E k \in Jobs \ {id} : Held(k) \cap granted'[id].R # {})
              => RaisedOn(id)]_vars

\* The step handled an urgency request.
UrgencyRequestStep == urgency_last' # urgency_last

\* The request r names a job and an urgency that the handler must reject:
\* urgency out of range, unknown job, wrong submitter, guest limit, or
\* resources already allocated.
UrgencyRejectCause(r) ==
    LET job == active_jobs[r.id]
    IN \/ r.urgency < FLUX_JOB_URGENCY_MIN
       \/ r.urgency > FLUX_JOB_URGENCY_MAX
       \/ ~job.active
       \/ r.cred.rolemask # "FLUX_ROLE_OWNER" /\ r.cred.userid # job.userid
       \/ /\ r.cred.rolemask # "FLUX_ROLE_OWNER"
          /\ r.urgency > MAXOF(FLUX_JOB_URGENCY_DEFAULT, job.urgency)
       \/ job.has_resources

\* C22: whenever the urgency of an active job changes, an urgency request
\* for that job changed it, and a requester without the owner role
\* submitted the job and set an urgency no greater than the maximum of the
\* default urgency and the job's urgency before; a request rejected for an
\* out-of-range urgency, an unknown job, a wrong submitter, the guest limit
\* or allocated resources gets one error response, posts no event, and
\* leaves the urgency and priority of every job unchanged.
C22_UrgencyGuestRules ==
    [][ /\ \A j \in JobIds :
              (active_jobs[j].active /\ active_jobs'[j].urgency # active_jobs[j].urgency)
                  => /\ UrgencyRequestStep
                     /\ urgency_last'.id = j
                     /\ active_jobs'[j].urgency = urgency_last'.urgency
                     /\ urgency_last'.cred.rolemask # "FLUX_ROLE_OWNER"
                            => /\ urgency_last'.cred.userid = active_jobs[j].userid
                               /\ active_jobs'[j].urgency
                                      <= MAXOF(FLUX_JOB_URGENCY_DEFAULT,
                                               active_jobs[j].urgency)
        /\ (UrgencyRequestStep /\ UrgencyRejectCause(urgency_last'))
               => /\ urgency_last'.events = <<>>
                  /\ urgency_last'.sched = <<>>
                  /\ active_jobs' = active_jobs
                  /\ Len(urgency_last'.resp) = 1
                  /\ urgency_last'.resp[1].type = "error" ]_vars

\* A guest asked for the highest urgency on their own job, whose urgency the
\* owner had raised above the default: the request was refused and the job
\* kept its urgency and priority.
C22_Witness ==
    /\ urgency_last.cred.rolemask = "FLUX_ROLE_USER"
    /\ urgency_last.id \in JobIds
    /\ active_jobs[urgency_last.id].active
    /\ active_jobs[urgency_last.id].userid = urgency_last.cred.userid
    /\ ~active_jobs[urgency_last.id].has_resources
    /\ urgency_last.urgency = FLUX_JOB_URGENCY_MAX
    /\ active_jobs[urgency_last.id].urgency = FLUX_JOB_URGENCY_DEFAULT + 1
    /\ active_jobs[urgency_last.id].priority = priority_of(FLUX_JOB_URGENCY_DEFAULT + 1)
    /\ urgency_last.events = <<>>
    /\ urgency_last.resp = <<[type |-> "error", errno |-> "EPERM",
                              errstr |-> "guests can only adjust urgency <= default"]>>

\* The output frames among the responses resp.
OutputFrames(resp) == SelectSeq(resp, LAMBDA r : r.type = "output")

\* C31: every output frame sent for a process is of a stream kind that the
\* exec request which created the process asked for, and the selection of
\* a process stays what the request asked for as long as the process lives.
C31_OnlyRequestedStreams ==
    [][ /\ \A i \in 1..Len(OutputFrames(last'.resp)) :
              LET r == OutputFrames(last'.resp)[i]
              IN  /\ r.pid \in Procs
                  /\ r.msg \in proc[r.pid].on
        /\ \A p \in Procs :
              (Live(p) /\ hist[p].saved /\ proc'[p].obj = "live")
                  => /\ proc'[p].on = proc[p].on
                     /\ proc'[p].ops = proc[p].ops ]_vars

\* A process created without stderr output has had a stdout frame sent.
C31_Witness ==
    /\ last.op = "output"
    /\ last.arg.pid \in Procs
    /\ "stderr" \notin proc[last.arg.pid].on
    /\ "stdout" \in proc[last.arg.pid].on
    /\ Len(OutputFrames(last.resp)) = 1
    /\ OutputFrames(last.resp)[1].msg = "stdout"

\* The step handled a list request that passed the authorization and did
\* not run out of memory.
AuthorizedList ==
    /\ last'.op = "list"
    /\ ~auth_fails(last'.arg.sender)
    /\ last'.step # "nomem"

\* C32: an authorized list request (that does not run out of memory) gets
\* a single response with exactly one entry per record in the registry, in
\* registry order, each with the record's pid and the text of its command,
\* and leaves the registry and every record unchanged.
C32_ListEntries ==
    [][AuthorizedList =>
          /\ Len(last'.resp) = 1
          /\ last'.resp[1].type = "list"
          /\ last'.resp[1].to = Req("rexec.list", last'.arg.sender, 0)
          /\ Len(last'.resp[1].procs) = Len(subprocesses)
          /\ \A i \in 1..Len(subprocesses) :
                /\ last'.resp[1].procs[i].pid = subprocesses[i]
                /\ last'.resp[1].procs[i].cmd
                       = flux_cmd_stringify(proc[subprocesses[i]].cmd)
          /\ subprocesses' = subprocesses
          /\ proc' = proc]_vars

\* The step handled a kill request that decodes, passes the authorization
\* and names a pid of the registry.
AuthorizedKillOfPresent ==
    /\ last'.op = "kill"
    /\ last'.step # "unpack"
    /\ ~auth_fails(last'.arg.sender)
    /\ last'.arg.pid \in Members(subprocesses)

\* C33: an authorized kill request for a pid of the registry sends the
\* requested signal to the process group of that pid once, and to nothing
\* else, and gets one response: a success exactly when the send
\* succeeded, otherwise an error with the errno of the send and no message.
C33_KillSignalsOnce ==
    [][AuthorizedKillOfPresent =>
          /\ Len(last'.sig) = 1
          /\ last'.sig[1].via = "killpg"
          /\ last'.sig[1].pid = last'.arg.pid
          /\ last'.sig[1].signum = last'.arg.signum
          /\ Len(last'.resp) = 1
          /\ last'.resp[1].to = Req("rexec.kill", last'.arg.sender, 0)
          /\ last'.resp[1].type = (IF last'.sig[1].ok THEN "ok" ELSE "error")
          /\ ~last'.sig[1].ok =>
                /\ last'.resp[1].errno = last'.errno
                /\ last'.resp[1].errno \in KillResults \ {"ok"}
                /\ last'.resp[1].msg = ""]_vars

\* An authorized kill of a process of the registry whose signal could not
\* be sent has been answered with the errno of the send.
C33_Witness ==
    /\ last.op = "kill"
    /\ last.step = "killpg"
    /\ last.arg.pid \in Members(subprocesses)
    /\ last.arg.signum = "SIGKILL"
    /\ Len(last.sig) = 1
    /\ ~last.sig[1].ok
    /\ last.resp[1].type = "error"
    /\ last.resp[1].errno = "ESRCH"

\* C34: a kill, disconnect, list or shutdown step leaves the registry and
\* every record as they were, whether its signals are sent or fail; a
\* record leaves the registry only in the completion or the Failed state
\* change of its process.
C34_SignalsRemoveNothing ==
    [][ /\ last'.op \in {"kill", "disconnect", "list", "shutdown"}
              => /\ subprocesses' = subprocesses
                 /\ proc' = proc
        /\ \A p \in Procs :
              (InRegistry(p) /\ p \notin Members(subprocesses'))
                  => FailedOrCompletionOf(p) ]_vars

\* A shutdown has signalled two running processes, one of them without
\* success, and both records are in the registry as before.
C34_Witness ==
    /\ last.op = "shutdown"
    /\ Len(last.sig) = 2
    /\ \E i \in 1..2 : ~last.sig[i].ok
    /\ Len(subprocesses) = 2
    /\ \A p \in Members(subprocesses) : Live(p) /\ proc[p].state = "RUNNING"

\* C35: the step that destroys the server sends SIGKILL to every record of
\* the registry, in registry order, and leaves the registry empty, also
\* with a shutdown handle outstanding; it does not fulfill the handle and
\* sends no response; once the server is destroyed no handler runs.
C35_DestroyKillsAll ==
    [][ /\ (~destroyed /\ destroyed')
              => /\ last'.op = "destroy"
                 /\ Len(last'.sig) = Len(subprocesses)
                 /\ \A i \in 1..Len(subprocesses) :
                       /\ last'.sig[i].via = "kill"
                       /\ last'.sig[i].pid = subprocesses[i]
                       /\ last'.sig[i].signum = "SIGKILL"
                 /\ subprocesses' = <<>>
                 /\ \A p \in Procs : ~proc'[p].obj = "live"
                 /\ fulfilled' = fulfilled
                 /\ shutdown' = shutdown
                 /\ last'.resp = <<>>
        /\ destroyed => UNCHANGED vars ]_vars

\* The server was destroyed with a shutdown handle outstanding and two
\* records in the registry: both were sent SIGKILL, the handle is unfulfilled.
C35_Witness ==
    /\ destroyed
    /\ last.op = "destroy"
    /\ shutdown # "NULL"
    /\ fulfilled = 0
    /\ Len(last.sig) = 2
    /\ subprocesses = <<>>

\* C36: every frame a callback of a process sends (state, output,
\* end-of-data, failure) is addressed to the exec request that created the
\* process, which stays the same while the process lives; the responses of
\* an exec, write, kill, list or disconnect step are addressed only to that
\* request of its own sender, never to an exec stream of a process.
C36_FramesToCreator ==
    [][ /\ \A i \in 1..Len(last'.resp) :
              IF last'.op \in Callbacks
              THEN last'.resp[i].to
                       = Req("rexec.exec", proc[last'.arg.pid].sender, last'.arg.pid)
              ELSE /\ last'.resp[i].to.sender = last'.arg.sender
                   /\ last'.resp[i].to.pid = 0
                   /\ last'.resp[i].to.topic
                          = (CASE last'.op = "exec" -> "rexec.exec"
                               [] last'.op = "kill" -> "rexec.kill"
                               [] last'.op = "list" -> "rexec.list"
                               [] OTHER -> "none")
        /\ \A p \in Procs :
              /\ (~hist[p].saved /\ hist'[p].saved)
                     => /\ last'.op = "exec"
                        /\ proc'[p].sender = last'.arg.sender
              /\ (hist[p].saved /\ Live(p) /\ proc'[p].obj = "live")
                     => proc'[p].sender = proc[p].sender ]_vars

\* With a process of each requester in the registry, an output frame of
\* the second requester's process has been sent to its exec request.
C36_Witness ==
    /\ subprocesses = <<1, 2>>
    /\ proc[1].sender = "U1"
    /\ proc[2].sender = "U2"
    /\ last.op = "output"
    /\ last.arg.pid = 2
    /\ Len(last.resp) = 1
    /\ last.resp[1].to = Req("rexec.exec", "U2", 2)

\* The record of p has been removed after its terminal frame was sent.
Finished(p) == hist[p].removals >= 1 /\ TerminalFrames(p) >= 1

\* C37: once the terminal frame of a process has been sent and its record
\* removed, no step sends a frame to the exec request of the process, puts
\* the process back in the registry, removes it again, or changes its
\* released object.
C37_NothingAfterRemoval ==
    [][\A p \in Procs :
          Finished(p) =>
              /\ FramesTo(last'.resp, p) = <<>>
              /\ \A i \in 1..Len(last'.sig) : last'.sig[i].pid # p
              /\ ~(last'.op \in Callbacks /\ last'.arg.pid = p)
              /\ p \notin Members(subprocesses')
              /\ hist'[p].removals = hist[p].removals
              /\ TerminalFrames(p)' = TerminalFrames(p)
              /\ proc'[p] = proc[p]
              /\ proc[p].obj = "freed"]_vars

\* The first process was removed on its Failed transition, and after that
\* an output event of the second process has been handled.
C37_Witness ==
    /\ hist[1].removals = 1
    /\ hist[1].fail = 1
    /\ hist[1].eod = 0
    /\ proc[1].obj = "freed"
    /\ last.op = "output"
    /\ last.arg.pid = 2
    /\ InRegistry(2)

\* Nothing of the polling cycle is awaited: neither the listing nor a lookup.
ArchiveQuiet == ~archive_list /\ archive_lookups = <<>>

\* C38: after every expiry of the archive timer the timer is re-armed exactly
\* once: as soon as nothing of the cycle is awaited any more (the listing has
\* answered, with or without an error, and every lookup it started has
\* finished, successfully or not) the timer is started, it has been started
\* once in the cycle, and it is never started while lookups are outstanding.
C38_TimerRearmedOnce ==
    /\ ArchiveQuiet => (archive_w /\ archive_rearms = 1)
    /\ archive_w => archive_lookups = <<>>
    /\ archive_rearms <= 1

====
